---- MODULE Spec2Model ----
(***************************************************************************)
(* A model of aig, the AI git assistant: the provider client's retry       *)
(* loops, the response normalizer, and the commit / pr / review commands.   *)
(* Text is a sequence of one-character strings, so that the string          *)
(* operations of the Go code (Split, Contains, TrimSpace, ToLower, ...)     *)
(* are computed and not assumed.                                            *)
(***************************************************************************)
EXTENDS Integers, Sequences, FiniteSets, TLC

VARIABLES
    outcomes,     \* provider outcomes by call number, shared by the backends
    ctx,          \* the request context: "none", "background", "armed", "done"
    gem,          \* the Gemini backend's generateWithRetry activation
    oai,          \* the OpenAI backend's generateWithRetry activation
    text,         \* the raw text given to the response normalizer
    conventional, \* the normalizer's conventional option
    out,          \* the normalizer's last result
    reviews,      \* the values parseReviewResponse has returned for this text, in call order
    command,      \* the subcommand run: "commit", "pr", "review"
    cfg,          \* the loaded configuration (cfg.AI)
    flags,        \* the command-line flags
    commitType,   \* the package variable behind --type
    repo,         \* what git answers: branch name, diffs, failures
    pc,           \* the command's position
    local,        \* the command's local variables
    effects,      \* what the command has done: output, provider, git commit, git push
    exit          \* the error the command returned: "running", "nil" or its class

retryVars == <<outcomes, ctx, gem, oai>>
parseVars == <<text, conventional, out, reviews>>
cmdVars == <<command, cfg, flags, commitType, repo, pc, local, effects, exit>>
vars == <<outcomes, ctx, gem, oai, text, conventional, out, reviews,
          command, cfg, flags, commitType, repo, pc, local, effects, exit>>

(***************************************************************************)
(* Go's strings package, on sequences of characters.                        *)
(***************************************************************************)
Min(S) == CHOOSE x \in S : \A y \in S : x <= y

\* unicode.IsSpace, restricted to the characters the model uses
WhiteSpace == {" ", "\n", "\t", "\r"}

RECURSIVE TrimLeft(_)
TrimLeft(s) == IF s # <<>> /\ Head(s) \in WhiteSpace THEN TrimLeft(Tail(s)) ELSE s

RECURSIVE TrimRight(_)
TrimRight(s) ==
    IF s # <<>> /\ s[Len(s)] \in WhiteSpace THEN TrimRight(SubSeq(s, 1, Len(s) - 1)) ELSE s

TrimSpace(s) == TrimRight(TrimLeft(s))

HasPrefix(s, p) == Len(s) >= Len(p) /\ SubSeq(s, 1, Len(p)) = p

HasSuffix(s, p) == Len(s) >= Len(p) /\ SubSeq(s, Len(s) - Len(p) + 1, Len(s)) = p

TrimPrefix(s, p) == IF HasPrefix(s, p) THEN SubSeq(s, Len(p) + 1, Len(s)) ELSE s

TrimSuffix(s, p) == IF HasSuffix(s, p) THEN SubSeq(s, 1, Len(s) - Len(p)) ELSE s

\* strings.Index, 1-based; 0 when sub does not occur
Index(s, sub) ==
    LET at == {i \in 1..(Len(s) - Len(sub) + 1) : SubSeq(s, i, i + Len(sub) - 1) = sub}
    IN  IF at = {} THEN 0 ELSE Min(at)

Contains(s, sub) == Index(s, sub) # 0

RECURSIVE Split(_, _)
Split(s, sep) ==
    LET i == Index(s, sep)
    IN  IF i = 0 THEN <<s>>
        ELSE <<SubSeq(s, 1, i - 1)>> \o Split(SubSeq(s, i + Len(sep), Len(s)), sep)

RECURSIVE SplitN(_, _, _)
SplitN(s, sep, n) ==
    LET i == Index(s, sep)
    IN  IF n = 0 THEN <<>>
        ELSE IF n = 1 \/ i = 0 THEN <<s>>
        ELSE <<SubSeq(s, 1, i - 1)>> \o SplitN(SubSeq(s, i + Len(sep), Len(s)), sep, n - 1)

RECURSIVE Join(_, _)
Join(parts, sep) ==
    IF parts = <<>> THEN <<>>
    ELSE IF Len(parts) = 1 THEN parts[1]
    ELSE parts[1] \o sep \o Join(Tail(parts), sep)

UpperLetters == <<"A","B","C","D","E","F","G","H","I","J","K","L","M","N","O","P","Q","R","S","T",
       "U","V","W","X","Y","Z">>
LowerLetters == <<"a","b","c","d","e","f","g","h","i","j","k","l","m","n","o","p","q","r","s","t",
       "u","v","w","x","y","z">>

LetterIndex(letters, c) ==
    LET at == {i \in 1..Len(letters) : letters[i] = c} IN IF at = {} THEN 0 ELSE Min(at)

ToLowerChar(c) ==
    LET i == LetterIndex(UpperLetters, c) IN IF i = 0 THEN c ELSE LowerLetters[i]

ToUpperChar(c) ==
    LET i == LetterIndex(LowerLetters, c) IN IF i = 0 THEN c ELSE UpperLetters[i]

ToLower(s) == [i \in 1..Len(s) |-> ToLowerChar(s[i])]

\* fmt's %d, for the small non-negative numbers the messages print
Digits == <<"0","1","2","3","4","5","6","7","8","9">>

RECURSIVE Itoa(_)
Itoa(n) == IF n < 10 THEN <<Digits[n + 1]>> ELSE Itoa(n \div 10) \o <<Digits[(n % 10) + 1]>>

(***************************************************************************)
(* Errors. A Go error is its message; Nil is the nil error.                 *)
(***************************************************************************)
Nil == <<>>

\* provider outcomes of one call: a response with a candidate, a response with
\* none, HTTP 429, a quota message, and an error that is neither
Outcomes == {"ok", "empty", "rl429", "rlquota", "err"}

\* err.Error() of the provider client's error, by outcome
RawError(o) ==
    CASE o = "rl429"   -> <<"E","r","r","o","r"," ","4","2","9",":"," ","T","o","o"," ","M","a","n",
       "y"," ","R","e","q","u","e","s","t","s">>
      [] o = "rlquota" -> <<"R","e","s","o","u","r","c","e"," ","h","a","s"," ","b","e","e","n"," ",
       "e","x","h","a","u","s","t","e","d"," ","(","e",".","g","."," ","c","h","e","c","k"," ","q",
       "u","o","t","a",")",".">>
      [] o = "err"     -> <<"E","r","r","o","r"," ","5","0","0",":"," ","i","n","t","e","r","n","a",
       "l"," ","e","r","r","o","r">>
      [] o = "ctxerr"  -> <<"c","o","n","t","e","x","t"," ","d","e","a","d","l","i","n","e"," ","e",
       "x","c","e","e","d","e","d">>
      [] OTHER         -> Nil

\* the HTTP status of the *openai.APIError, 0 when the error is no APIError
HTTPStatusCode(o) ==
    CASE o = "rl429"   -> 429
      [] o = "rlquota" -> 429
      [] o = "err"     -> 500
      [] OTHER         -> 0

\* ctx.Err() once the deadline has passed
ContextErr == <<"c","o","n","t","e","x","t"," ","d","e","a","d","l","i","n","e"," ","e","x","c","e",
       "e","d","e","d">>

maxRetries_Four == 3 + 1
maxRetries == 3

baseDelay == 1

RECURSIVE Pow2(_)
Pow2(n) == IF n = 0 THEN 1 ELSE 2 * Pow2(n - 1)

BackoffDelay_Linear(attempt) == (attempt + 1) * baseDelay
\* time.Duration(math.Pow(2, float64(attempt))) * baseDelay, in seconds
BackoffDelay(attempt) == Pow2(attempt) * baseDelay

IsRateLimitSignal_Any(errText) == TRUE
\* the Gemini backend's rate-limit test on the error text
IsRateLimitSignal(errText) == Contains(errText, <<"4","2","9">>) \/ Contains(errText, <<"q","u","o",
       "t","a">>)

\* the OpenAI backend's rate-limit test: an *openai.APIError with status 429
IsHTTP429(o) == HTTPStatusCode(o) # 0 /\ HTTPStatusCode(o) = 429

GeminiRateLimitMsg(n) ==
    <<"r","a","t","e"," ","l","i","m","i","t"," ","e","x","c","e","e","d","e","d"," ","a","f","t",
       "e","r"," ">> \o Itoa(n) \o
    <<" ","a","t","t","e","m","p","t","s","."," ","P","l","e","a","s","e"," ","t","r","y"," ","a",
       "g","a","i","n"," ","l","a","t","e","r"," ","o","r"," ","c","h","e","c","k"," ","y","o","u",
       "r"," ","G","e","m","i","n","i"," ","A","P","I"," ","q","u","o","t","a"," ","a","t"," ","h",
       "t","t","p","s",":","/","/","a","i",".","g","o","o","g","l","e",".","d","e","v","/","g","e",
       "m","i","n","i","-","a","p","i","/","d","o","c","s","/","r","a","t","e","-","l","i","m","i",
       "t","s">>

GeminiLoopExitMsg(n) == <<"f","a","i","l","e","d"," ","a","f","t","e","r"," ">> \o Itoa(n) \o <<" ",
       "r","e","t","r","i","e","s">>

OpenAIRateLimitMsg ==
    <<"r","a","t","e"," ","l","i","m","i","t"," ","e","x","c","e","e","d","e","d","."," ","P","l",
       "e","a","s","e"," ","c","h","e","c","k"," ","y","o","u","r"," ","O","p","e","n","A","I"," ",
       "A","P","I"," ","q","u","o","t","a"," ","a","n","d"," ","b","i","l","l","i","n","g"," ","a",
       "t"," ","h","t","t","p","s",":","/","/","p","l","a","t","f","o","r","m",".","o","p","e","n",
       "a","i",".","c","o","m","/","u","s","a","g","e">>

OpenAIErrorMsg(errText) == <<"O","p","e","n","A","I"," ","A","P","I"," ","e","r","r","o","r",":",
       " ">> \o errText

OpenAINoResponseMsg == <<"n","o"," ","r","e","s","p","o","n","s","e"," ","f","r","o","m"," ","O",
       "p","e","n","A","I">>

(***************************************************************************)
(* generateWithRetry of the two backends. One activation is a record:       *)
(* pc ("idle", "call", "backoff", "done"), the loop variable attempt, the   *)
(* provider calls made, the outcomes seen, the backoff delays waited, and   *)
(* the values returned (resp, err; kind names the return statement).        *)
(***************************************************************************)
IdleRequest ==
    [pc |-> "idle", attempt |-> 0, calls |-> 0, seen |-> <<>>, waits |-> <<>>,
     resp |-> "none", err |-> Nil, kind |-> "none"]

StartedRequest == [IdleRequest EXCEPT !.pc = "call"]

Return(r, resp, err, kind) == [r EXCEPT !.pc = "done", !.resp = resp, !.err = err, !.kind = kind]

\* the outcome of provider call number k: a call made with a context that is
\* done fails with the context's error; both backends see the same outcomes
IsOutcomeOfCall(k, o) ==
    IF ctx = "done" THEN o = "ctxerr"
    ELSE IF k <= Len(outcomes) THEN o = outcomes[k]
    ELSE o \in Outcomes

RecordOutcome(k, o) ==
    IF ctx # "done" /\ k > Len(outcomes) THEN Append(outcomes, o) ELSE outcomes

\* one iteration of the Gemini loop, from the call to the return or the select
GeminiAttempt(g, o) ==
    LET called == [g EXCEPT !.calls = @ + 1, !.seen = Append(@, o)]
        errText == RawError(o)
    IN  IF errText # Nil
        THEN IF IsRateLimitSignal(errText)
             THEN IF g.attempt = maxRetries
                  THEN Return(called, "none", GeminiRateLimitMsg(maxRetries + 1), "RateLimitError")
                  ELSE [called EXCEPT !.pc = "backoff"]
             ELSE Return(called, "none", errText, "ProviderError")
        ELSE Return(called, o, Nil, "none")

SelectBackoff_SleepOnly(c) == "timer"
\* the select of the backoff wait: ctx.Done() is ready, or the timer fires first
SelectBackoff(c) == IF c = "done" THEN "cancelled" ELSE "timer"

\* leaving the select: the next iteration (or the loop's exit), or ctx.Err()
GeminiWake(g, c) ==
    LET waited == [g EXCEPT !.waits = Append(@, BackoffDelay(g.attempt))]
    IN  IF SelectBackoff(c) = "cancelled"
        THEN Return(g, "none", ContextErr, "Canceled")
        ELSE IF g.attempt + 1 <= maxRetries
             THEN [waited EXCEPT !.attempt = @ + 1, !.pc = "call"]
             ELSE Return(waited, "none", GeminiLoopExitMsg(maxRetries + 1), "ProviderError")

\* the OpenAI backend: one call, no loop
OpenAIAttempt(r, o) ==
    LET called == [r EXCEPT !.calls = @ + 1, !.seen = Append(@, o)]
        errText == RawError(o)
    IN  IF errText # Nil
        THEN IF IsHTTP429(o)
             THEN Return(called, "none", OpenAIRateLimitMsg, "RateLimitError")
             ELSE Return(called, "none", OpenAIErrorMsg(errText), "ProviderError")
        ELSE IF o = "empty"
             THEN Return(called, "none", OpenAINoResponseMsg, "NoResponseError")
             ELSE Return(called, o, Nil, "none")

GeminiCall ==
    /\ gem.pc = "call"
    /\ \E o \in Outcomes \cup {"ctxerr"} :
        /\ IsOutcomeOfCall(gem.calls + 1, o)
        /\ outcomes' = RecordOutcome(gem.calls + 1, o)
        /\ gem' = GeminiAttempt(gem, o)
    /\ UNCHANGED <<ctx, oai, parseVars, cmdVars>>

GeminiBackoff ==
    /\ gem.pc = "backoff"
    /\ gem' = GeminiWake(gem, ctx)
    /\ UNCHANGED <<outcomes, ctx, oai, parseVars, cmdVars>>

OpenAICall ==
    /\ oai.pc = "call"
    /\ \E o \in Outcomes \cup {"ctxerr"} :
        /\ IsOutcomeOfCall(oai.calls + 1, o)
        /\ outcomes' = RecordOutcome(oai.calls + 1, o)
        /\ oai' = OpenAIAttempt(oai, o)
    /\ UNCHANGED <<ctx, gem, parseVars, cmdVars>>

\* the deadline of context.WithTimeout passes
DeadlineExceeded ==
    /\ ctx = "armed"
    /\ exit \in {"none", "running"}
    /\ ctx' = "done"
    /\ UNCHANGED <<outcomes, gem, oai, parseVars, cmdVars>>

\* the variables of the parts a specification leaves out
NoRetry == outcomes = <<>> /\ ctx = "none" /\ gem = IdleRequest /\ oai = IdleRequest

NoOutput == [fn |-> "none"]

NoNormalizer == text = <<>> /\ conventional = FALSE /\ out = NoOutput /\ reviews = <<>>

NoCommand ==
    /\ command = "none" /\ cfg = <<>> /\ flags = <<>> /\ commitType = <<>> /\ repo = <<>>
    /\ pc = "none" /\ local = <<>> /\ effects = <<>> /\ exit = "none"

(***************************************************************************)
(* SpecRetry: the same request given to both backends, under one sequence   *)
(* of provider outcomes and a caller's deadline.                            *)
(***************************************************************************)
InitRetry ==
    /\ outcomes = <<>>
    /\ ctx = "armed"
    /\ gem = StartedRequest
    /\ oai = StartedRequest
    /\ NoNormalizer
    /\ NoCommand

NextRetry == GeminiCall \/ GeminiBackoff \/ OpenAICall \/ DeadlineExceeded

SpecRetry == InitRetry /\ [][NextRetry]_vars

(***************************************************************************)
(* Claims about the retry loops, checked under SpecRetry.                   *)
(***************************************************************************)
RateLimited(o) == o \in {"rl429", "rlquota"}

FailedOtherwise(o) == o \in {"err", "ctxerr"}

Last(s) == s[Len(s)]

IsPrefix(s, t) == Len(s) <= Len(t) /\ SubSeq(t, 1, Len(s)) = s

\* C1: the Gemini loop calls the provider at most 4 times per request, retries only
\* after a rate-limit/quota outcome, ends with the rate-limit error and its remediation
\* hint when all 4 attempts are rate limited, and ends with the response on a success.
C1_GeminiAtMostFourCalls ==
    /\ gem.calls <= 4
    /\ Len(gem.waits) <= 3
    /\ \A i \in 1..(Len(gem.seen) - 1) : RateLimited(gem.seen[i])
    /\ (gem.calls = 4 /\ \A i \in 1..4 : RateLimited(gem.seen[i]))
          => /\ gem.pc = "done"
             /\ gem.kind = "RateLimitError"
             /\ HasPrefix(gem.err, <<"r","a","t","e"," ","l","i","m","i","t"," ","e","x","c","e",
                     "e","d","e","d"," ","a","f","t","e","r"," ","4"," ","a","t","t","e","m","p",
                     "t","s">>)
             /\ Contains(gem.err, <<"P","l","e","a","s","e"," ","t","r","y"," ","a","g","a","i","n",
                     " ","l","a","t","e","r"," ","o","r"," ","c","h","e","c","k"," ","y","o","u",
                     "r"," ","G","e","m","i","n","i"," ","A","P","I"," ","q","u","o","t","a">>)
    /\ (gem.seen # <<>> /\ Last(gem.seen) \in {"ok", "empty"})
          => gem.pc = "done" /\ gem.err = Nil /\ gem.resp = Last(gem.seen)

C1_Witness ==
    gem.pc = "done" /\ gem.calls = 4 /\ gem.kind = "RateLimitError" /\ Len(gem.waits) = 3

\* C2: when the deadline passes during a backoff wait, the only thing the Gemini request
\* does is return the context's error, with no further provider call; a request that has
\* returned does nothing more.
C2_CancelDuringBackoff ==
    [][ /\ (gem.pc = "backoff" /\ ctx = "done" /\ gem' # gem)
            => /\ gem'.pc = "done"
               /\ gem'.err = ContextErr
               /\ gem'.resp = "none"
               /\ gem'.kind # "RateLimitError"
               /\ gem'.calls = gem.calls
        /\ gem.pc = "done" => gem' = gem ]_vars

C2_Witness ==
    gem.pc = "done" /\ ctx = "done" /\ gem.kind = "Canceled" /\ gem.err = ContextErr

\* C3 as stated: a request that ends with an error that is no rate-limit signal made
\* exactly one provider call and waited in no backoff, in both backends.
C3_ExactlyOneCall ==
    \A r \in {gem, oai} :
        (r.pc = "done" /\ r.seen # <<>> /\ FailedOtherwise(Last(r.seen)))
            => r.calls = 1 /\ r.waits = <<>> /\ r.kind = "ProviderError"

\* C3 as amended: a provider call that fails with an error that is no rate-limit signal
\* is the last call of its request, no backoff wait follows it and its error is returned
\* as a provider error; the calls before it (none in the OpenAI backend, at most 3 in the
\* Gemini backend) were all rate limited, each followed by one backoff wait.
C3_NeverRetried ==
    \A r \in {gem, oai} :
        \A i \in 1..Len(r.seen) :
            FailedOtherwise(r.seen[i])
                => /\ r.pc = "done"
                   /\ i = Len(r.seen)
                   /\ r.calls = i
                   /\ Len(r.waits) = i - 1
                   /\ \A j \in 1..(i - 1) : RateLimited(r.seen[j])
                   /\ r.kind = "ProviderError"
                   /\ r.resp = "none"
                   /\ r.err \in {RawError(r.seen[i]), OpenAIErrorMsg(RawError(r.seen[i]))}
                   /\ (r = oai => r.calls = 1)

C3_Witness ==
    /\ gem.pc = "done" /\ gem.calls = 2 /\ gem.seen[2] = "err" /\ gem.kind = "ProviderError"
    /\ oai.pc = "done" /\ oai.calls = 1

ResultClass(r) ==
    IF r.err # Nil THEN r.kind ELSE IF r.resp = "empty" THEN "NoResponseError" ELSE "ok"

\* C4: under the same provider outcomes and no deadline, the two backends make the same
\* number of attempts, wait in the same backoffs and return the same class of result.
C4_BackendsAgree ==
    (/\ gem.pc = "done" /\ oai.pc = "done" /\ ctx # "done"
     /\ IsPrefix(oai.seen, gem.seen) \/ IsPrefix(gem.seen, oai.seen))
        => /\ gem.calls = oai.calls
           /\ gem.waits = oai.waits
           /\ ResultClass(gem) = ResultClass(oai)

(***************************************************************************)
(* The response normalizer.                                                 *)
(***************************************************************************)
\* s[i] and s[i:] of Go, 0-based: an index out of range panics
InRange(s, i) == i >= 0 /\ i < Len(s)

At(s, i) == IF InRange(s, i) THEN s[i + 1] ELSE <<>>

SliceFrom(s, i) == IF i >= 0 /\ i <= Len(s) THEN SubSeq(s, i + 1, Len(s)) ELSE <<>>

HasScope_CloseParenOnly(typeAndScope) == Contains(typeAndScope, <<")">>)
\* the test that decides whether the text before the colon is split at "("
HasScope(typeAndScope) == Contains(typeAndScope, <<"(">>) /\ Contains(typeAndScope, <<")">>)

\* the conventional header: Type, Scope and Subject of the first line
ParseHeader(first, conv) ==
    IF conv /\ Contains(first, <<":">>)
    THEN LET parts == SplitN(first, <<":">>, 2)
         IN  IF Len(parts) = 2
             THEN LET typeAndScope == TrimSpace(At(parts, 0))
                      typeParts == SplitN(typeAndScope, <<"(">>, 2)
                  IN  IF HasScope(typeAndScope)
                      THEN [Type |-> TrimSpace(At(typeParts, 0)),
                            Scope |-> TrimSuffix(TrimSpace(At(typeParts, 1)), <<")">>),
                            Subject |-> TrimSpace(At(parts, 1)),
                            panic |-> ~InRange(typeParts, 0) \/ ~InRange(typeParts, 1)]
                      ELSE [Type |-> typeAndScope, Scope |-> <<>>,
                            Subject |-> TrimSpace(At(parts, 1)), panic |-> FALSE]
             ELSE [Type |-> <<>>, Scope |-> <<>>, Subject |-> <<>>, panic |-> FALSE]
    ELSE [Type |-> <<>>, Scope |-> <<>>, Subject |-> first, panic |-> FALSE]

IsFooterLine(line) ==
    \/ HasPrefix(line, <<"B","R","E","A","K","I","N","G"," ","C","H","A","N","G","E",":">>)
    \/ HasPrefix(line, <<"F","i","x","e","s"," ","#">>)
    \/ HasPrefix(line, <<"C","l","o","s","e","s"," ","#">>)
    \/ HasPrefix(line, <<"R","e","s","o","l","v","e","s"," ","#">>)

\* the loop over lines[2:]: the index of the first footer line, -1 when there is none
FooterStart(lines) ==
    LET at == {i \in 2..(Len(lines) - 1) : IsFooterLine(At(lines, i))}
    IN  IF at = {} THEN -1 ELSE Min(at)

ParseBodyFooter(lines) ==
    IF Len(lines) > 2
    THEN LET footerStart == FooterStart(lines)
             bodyLines == IF footerStart = -1 THEN SliceFrom(lines, 2)
                          ELSE SubSeq(lines, 3, footerStart)
         IN  [Body |-> TrimSpace(Join(bodyLines, <<"\n">>)),
              Footer |-> IF footerStart > 0
                         THEN TrimSpace(Join(SliceFrom(lines, footerStart), <<"\n">>))
                         ELSE <<>>]
    ELSE [Body |-> <<>>, Footer |-> <<>>]

\* "Build full message": header, blank line, body, blank line, footer
BuildFullMessage(m) ==
    LET header == IF m.Type # <<>>
                  THEN IF m.Scope # <<>>
                       THEN m.Type \o <<"(">> \o m.Scope \o <<")",":"," ">> \o m.Subject
                       ELSE m.Type \o <<":"," ">> \o m.Subject
                  ELSE m.Subject
        withBody == IF m.Body # <<>> THEN <<header, <<>>, m.Body>> ELSE <<header>>
        fullParts == IF m.Footer # <<>> THEN withBody \o <<<<>>, m.Footer>> ELSE withBody
    IN  Join(fullParts, <<"\n">>)

parseCommitMessage(t, conv) ==
    LET lines == Split(TrimSpace(t), <<"\n">>)
    IN  IF Len(lines) = 0
        THEN [Type |-> <<>>, Scope |-> <<>>, Subject |-> <<>>, Body |-> <<>>,
              Footer |-> <<>>, FullMessage |-> t, panic |-> FALSE]
        ELSE LET header == ParseHeader(At(lines, 0), conv)
                 rest == ParseBodyFooter(lines)
                 fields == [Type |-> header.Type, Scope |-> header.Scope,
                            Subject |-> header.Subject, Body |-> rest.Body,
                            Footer |-> rest.Footer]
             IN  [Type |-> fields.Type, Scope |-> fields.Scope, Subject |-> fields.Subject,
                  Body |-> fields.Body, Footer |-> fields.Footer,
                  FullMessage |-> BuildFullMessage(fields),
                  panic |-> header.panic \/ ~InRange(lines, 0)]

\* Go's map[string]string as a function on the keys present
MapSet(m, k, v) == [x \in (DOMAIN m) \cup {k} |-> IF x = k THEN v ELSE m[x]]

\* U+2022, the third bullet marker
Bullet == "BULLET"

\* the scan for "## " headings: the sections map and the section that is open
RECURSIVE ScanSections(_, _, _)
ScanSections(lines, sections, currentSection) ==
    IF lines = <<>> THEN sections
    ELSE LET line == TrimSpace(Head(lines))
             lowered == ToLower(TrimPrefix(line, <<"#","#"," ">>))
             name == IF lowered = <<"s","e","c","u","r","i","t","y"," ","r","i","s","k",
                     "s">> THEN <<"s","e","c","u","r","i","t","y">>
                     ELSE IF lowered = <<"p","e","r","f","o","r","m","a","n","c","e"," ","i","s",
                             "s","u","e","s">> THEN <<"p","e","r","f","o","r","m","a","n","c","e">>
                     ELSE lowered
         IN  IF HasPrefix(line, <<"#","#"," ">>)
             THEN ScanSections(Tail(lines), MapSet(sections, name, <<>>), name)
             ELSE IF currentSection # <<>>
             THEN ScanSections(Tail(lines),
                               MapSet(sections, currentSection,
                                      sections[currentSection] \o line \o <<"\n">>),
                               currentSection)
             ELSE ScanSections(Tail(lines), sections, currentSection)

IsBulletLine(line) ==
    line # <<>> /\ (HasPrefix(line, <<"-">>) \/ HasPrefix(line, <<"*">>) \/ HasPrefix(line, <<Bullet>>))

BulletContent(line) ==
    TrimSpace(TrimPrefix(TrimPrefix(TrimPrefix(line, <<"-">>), <<"*">>), <<Bullet>>))

\* the bullet lines of one section's content, marker stripped, in order
RECURSIVE BulletsOf(_)
BulletsOf(lines) ==
    IF lines = <<>> THEN <<>>
    ELSE LET line == TrimSpace(Head(lines))
         IN  IF IsBulletLine(line) THEN <<BulletContent(line)>> \o BulletsOf(Tail(lines))
             ELSE BulletsOf(Tail(lines))

\* the findings of the section stored under key, empty when the key is absent
Findings(sections, key) ==
    IF key \in DOMAIN sections THEN BulletsOf(Split(sections[key], <<"\n">>)) ELSE <<>>

\* a Review kept between calls: the value the last call returned
NewReview_Kept ==
    IF out.fn = "parseReviewResponse" THEN out.result
    ELSE [Summary |-> <<>>, Issues |-> <<>>, Suggestions |-> <<>>, SecurityRisks |-> <<>>,
          Performance |-> <<>>]

\* the Review value the parser starts from
NewReview ==
    [Summary |-> <<>>, Issues |-> <<>>, Suggestions |-> <<>>, SecurityRisks |-> <<>>,
     Performance |-> <<>>]

parseReviewResponse(t, options) ==
    LET sections == ScanSections(Split(t, <<"\n">>), <<>>, <<>>)
        issues == Findings(sections, <<"i","s","s","u","e","s">>)
        suggestions == Findings(sections, <<"s","u","g","g","e","s","t","i","o","n","s">>)
        security == Findings(sections, <<"s","e","c","u","r","i","t","y"," ","r","i","s","k","s">>)
        performance == Findings(sections, <<"p","e","r","f","o","r","m","a","n","c","e"," ","i","s",
                "s","u","e","s">>)
    IN  [Summary |-> IF <<"s","u","m","m","a","r","y">> \in DOMAIN sections
                     THEN TrimSpace(sections[<<"s","u","m","m","a","r","y">>]) ELSE NewReview.Summary,
         Issues |-> NewReview.Issues \o [i \in 1..Len(issues) |->
                        [Severity |-> <<"m","e","d","i","u","m">>, Type |-> <<"g","e","n","e","r",
                                "a","l">>, Description |-> issues[i]]],
         Suggestions |-> NewReview.Suggestions \o [i \in 1..Len(suggestions) |->
                        [Type |-> <<"g","e","n","e","r","a","l">>, Description |-> suggestions[i]]],
         SecurityRisks |-> NewReview.SecurityRisks \o [i \in 1..Len(security) |->
                        [Severity |-> <<"m","e","d","i","u","m">>, Description |-> security[i]]],
         Performance |-> NewReview.Performance \o [i \in 1..Len(performance) |->
                        [Type |-> <<"g","e","n","e","r","a","l">>, Description |-> performance[i]]]]

\* the first line that is neither empty nor a heading, <<>> when there is none
RECURSIVE FirstTitleLine(_)
FirstTitleLine(lines) ==
    IF lines = <<>> THEN <<>>
    ELSE LET line == TrimSpace(Head(lines))
         IN  IF line # <<>> /\ ~HasPrefix(line, <<"#">>) THEN line
             ELSE FirstTitleLine(Tail(lines))

parsePRDescriptionFromText(t) ==
    LET title == FirstTitleLine(Split(t, <<"\n">>))
        added == IF Contains(t, <<"a","d","d">>) \/ Contains(t, <<"n","e","w">>)
                 THEN <<<<"A","d","d","e","d"," ","n","e","w"," ","f","u","n","c","t","i","o","n",
                         "a","l","i","t","y">>>> ELSE <<>>
        fixed == IF Contains(t, <<"f","i","x">>) \/ Contains(t, <<"b","u","g">>)
                 THEN <<<<"F","i","x","e","d"," ","b","u","g","s">>>> ELSE <<>>
        updated == IF Contains(t, <<"u","p","d","a","t","e">>) \/ Contains(t, <<"m","o","d","i","f",
                "y">>)
                   THEN <<<<"U","p","d","a","t","e","d"," ","e","x","i","s","t","i","n","g"," ","f",
                           "e","a","t","u","r","e","s">>>> ELSE <<>>
        changes == added \o fixed \o updated
    IN  [Title |-> IF title # <<>> THEN title ELSE <<"G","e","n","e","r","a","t","e","d"," ","P",
            "R"," ","T","i","t","l","e">>,
         Summary |-> TrimSpace(t),
         Changes |-> IF Len(changes) = 0 THEN <<<<"M","a","d","e"," ","v","a","r","i","o","u","s",
                 " ","i","m","p","r","o","v","e","m","e","n","t","s">>>> ELSE changes,
         Testing |-> <<"P","l","e","a","s","e"," ","t","e","s","t"," ","t","h","e"," ","c","h","a",
                 "n","g","e","s"," ","m","a","n","u","a","l","l","y">>,
         BreakingChanges |-> <<>>]

(***************************************************************************)
(* SpecParse: the normalizer applied to bounded raw texts.                  *)
(***************************************************************************)
MaxLines == 3

\* how many times parseReviewResponse is called on one text
MaxCalls == 2

\* the lines the raw texts are made of
InputLines ==
    { <<>>, <<" ">>, <<"a">>, <<":">>, <<"(">>, <<")",":">>, <<"f","(","s",")",":"," ","a">>,
      <<"f","(","a",":","b",")",":"," ","x">>, <<"F",
            "i","x","e","s"," ","#","1">>, <<"#","#"," ","I","s","s","u","e","s">>, <<"-"," ",
            "a">> }

Texts ==
    { Join(ls, <<"\n">>) : ls \in UNION { [1..n -> InputLines] : n \in 1..MaxLines } }

InitParse ==
    /\ text \in Texts
    /\ conventional \in BOOLEAN
    /\ out = NoOutput
    /\ reviews = <<>>
    /\ NoRetry
    /\ NoCommand

ParseCommit ==
    /\ out' = [fn |-> "parseCommitMessage", result |-> parseCommitMessage(text, conventional)]
    /\ UNCHANGED <<text, conventional, reviews, retryVars, cmdVars>>

ParseReview ==
    /\ Len(reviews) < MaxCalls
    /\ out' = [fn |-> "parseReviewResponse", result |-> parseReviewResponse(text, [Verbose |-> FALSE])]
    /\ reviews' = Append(reviews, out'.result)
    /\ UNCHANGED <<text, conventional, retryVars, cmdVars>>

ParsePR ==
    /\ out' = [fn |-> "parsePRDescriptionFromText", result |-> parsePRDescriptionFromText(text)]
    /\ UNCHANGED <<text, conventional, reviews, retryVars, cmdVars>>

NextParse == ParseCommit \/ ParseReview \/ ParsePR

SpecParse == InitParse /\ [][NextParse]_vars

(***************************************************************************)
(* Claims about the normalizer, checked under SpecParse.                    *)
(***************************************************************************)
IsString(s) == DOMAIN s = 1..Len(s) /\ \A i \in DOMAIN s : s[i] \in STRING

IsFindingList(l, fields) ==
    /\ DOMAIN l = 1..Len(l)
    /\ \A i \in DOMAIN l : DOMAIN l[i] = fields /\ \A f \in fields : IsString(l[i][f])

\* C10: for every raw text the three parsers return a typed result and index nothing out
\* of range: a commit message of six strings, a review of a summary and four lists
\* (possibly empty), a PR description with a title and at least one change.
C10_NormalizerNeverFails ==
    /\ out.fn = "parseCommitMessage"
          => /\ ~out.result.panic
             /\ \A f \in {"Type", "Scope", "Subject", "Body", "Footer", "FullMessage"} :
                   IsString(out.result[f])
    /\ out.fn = "parseReviewResponse"
          => /\ IsString(out.result.Summary)
             /\ IsFindingList(out.result.Issues, {"Severity", "Type", "Description"})
             /\ IsFindingList(out.result.Suggestions, {"Type", "Description"})
             /\ IsFindingList(out.result.SecurityRisks, {"Severity", "Description"})
             /\ IsFindingList(out.result.Performance, {"Type", "Description"})
    /\ out.fn = "parsePRDescriptionFromText"
          => /\ IsString(out.result.Title) /\ out.result.Title # <<>>
             /\ IsString(out.result.Summary)
             /\ out.result.Changes # <<>>
             /\ \A i \in DOMAIN out.result.Changes : IsString(out.result.Changes[i])

C10_Witness ==
    /\ out.fn = "parseCommitMessage" /\ conventional
    /\ text = <<")",":","\n","(","\n","#","#"," ","I","s","s","u","e","s">>
    /\ out.result.Type = <<")">> /\ out.result.Body = <<"#","#"," ","I","s","s","u","e","s">>

(***************************************************************************)
(* Command layer: pure helpers of the commit, pr and review commands.       *)
(***************************************************************************)
IsDigit(c) == c \in {Digits[i] : i \in DOMAIN Digits}

AllDigits(s, i, n) == i + n - 1 <= Len(s) /\ \A k \in i..(i + n - 1) : IsDigit(s[k])

\* dateRegex.ReplaceAllString(branchName, ""): every leftmost run of 8 digits is removed
RECURSIVE RemoveDates(_)
RemoveDates(s) ==
    IF s = <<>> THEN <<>>
    ELSE IF AllDigits(s, 1, 8) THEN RemoveDates(SubSeq(s, 9, Len(s)))
    ELSE <<s[1]>> \o RemoveDates(Tail(s))

\* re.FindStringSubmatch with (\d{4,5}): the leftmost run of 4 digits, a fifth taken greedily
FindTicket(s) ==
    LET starts == {i \in 1..Len(s) : AllDigits(s, i, 4)}
    IN  IF starts = {} THEN <<>>
        ELSE LET i == CHOOSE j \in starts : \A k \in starts : j <= k
             IN  IF AllDigits(s, i, 5) THEN SubSeq(s, i, i + 4) ELSE SubSeq(s, i, i + 3)

ExtractCommitDetails(name) ==
    LET branchName == RemoveDates(ToLower(name))
    IN  [commitType |->
            IF Contains(branchName, <<"f","i","x">>) \/ Contains(branchName, <<"b","u","g","f","i",
                    "x">>) THEN <<"f","i","x">>
            ELSE IF Contains(branchName, <<"f","e","a","t","u","r",
                    "e">>) \/ Contains(branchName, <<"f","e","a","t">>)
                 THEN <<"f","e","a","t">>
                 ELSE <<>>,
         ticketNumber |-> FindTicket(branchName)]

\* the error is classified by its lower-cased text
IsQuotaError_InsufficientQuotaOnly(errText) ==
    Contains(ToLower(errText), <<"i","n","s","u","f","f","i","c","i","e","n","t","_","q","u","o",
            "t","a">>)

IsQuotaError(errText) ==
    LET errorStr == ToLower(errText)
    IN  \/ Contains(errorStr, <<"r","a","t","e"," ","l","i","m","i","t"," ","e","x","c","e","e","d",
            "e","d">>)
        \/ Contains(errorStr, <<"q","u","o","t","a"," ","e","x","c","e","e","d","e","d">>)
        \/ Contains(errorStr, <<"i","n","s","u","f","f","i","c","i","e","n","t","_","q","u","o","t",
                "a">>)
        \/ Contains(errorStr, <<"4","2","9">>)

contains(slice, item) == \E i \in DOMAIN slice : slice[i] = item

\* filepath.Base: the last element of the path, trailing slashes dropped
RECURSIVE TrimSlashes(_)
TrimSlashes(p) == IF p # <<>> /\ p[Len(p)] = "/" THEN TrimSlashes(SubSeq(p, 1, Len(p) - 1)) ELSE p

Base(path) ==
    IF path = <<>> THEN <<".">>
    ELSE LET p == TrimSlashes(path)
             slashes == {i \in 1..Len(p) : p[i] = "/"}
         IN  IF p = <<>> THEN <<"/">>
             ELSE IF slashes = {} THEN p
             ELSE SubSeq(p, (CHOOSE i \in slashes : \A k \in slashes : k <= i) + 1, Len(p))

\* strings.Title: a letter that starts a word is upper-cased
IsWordChar(c) ==
    \/ c \in {LowerLetters[i] : i \in DOMAIN LowerLetters}
    \/ c \in {UpperLetters[i] : i \in DOMAIN UpperLetters}
    \/ IsDigit(c) \/ c = "_"

Title(s) ==
    [i \in 1..Len(s) |-> IF i = 1 \/ ~IsWordChar(s[i - 1]) THEN ToUpperChar(s[i]) ELSE s[i]]

HasNewFileMarker_AnyFileMode(diff) == Contains(diff, <<"f","i","l","e"," ","m","o","d","e">>)

\* the added-file test: the marker is looked for in the whole diff
HasNewFileMarker(diff) == Contains(diff, <<"n","e","w"," ","f","i","l","e"," ","m","o","d","e">>)

\* the loop over the lines of the diff: the added, modified and deleted file names
RECURSIVE ScanDiff(_, _, _)
ScanDiff(lines, diff, acc) ==
    IF lines = <<>> THEN acc
    ELSE LET line == Head(lines)
             next ==
                 IF HasPrefix(line, <<"+","+","+">>) /\ ~Contains(line, <<"/","d","e","v","/","n",
                         "u","l","l">>)
                 THEN LET filename == TrimPrefix(line, <<"+","+","+"," ","b","/">>)
                      IN  IF ~contains(acc.addedFiles, filename)
                                /\ ~contains(acc.modifiedFiles, filename)
                          THEN IF HasNewFileMarker(diff)
                               THEN [acc EXCEPT !.addedFiles = Append(@, filename)]
                               ELSE [acc EXCEPT !.modifiedFiles = Append(@, filename)]
                          ELSE acc
                 ELSE IF HasPrefix(line, <<"-","-","-">>) /\ Contains(line, <<"/","d","e","v","/",
                         "n","u","l","l">>)
                 THEN LET filename == TrimPrefix(line, <<"-","-","-"," ","a","/">>)
                      IN  IF ~contains(acc.deletedFiles, filename)
                          THEN [acc EXCEPT !.deletedFiles = Append(@, filename)]
                          ELSE acc
                 ELSE IF HasPrefix(line, <<"+">>) /\ ~HasPrefix(line, <<"+","+","+">>)
                 THEN [acc EXCEPT !.addedLines = @ + 1]
                 ELSE IF HasPrefix(line, <<"-">>) /\ ~HasPrefix(line, <<"-","-","-">>)
                 THEN [acc EXCEPT !.deletedLines = @ + 1]
                 ELSE acc
         IN  ScanDiff(Tail(lines), diff, next)

FilesSubject_FullPath(verb, files) ==
    IF Len(files) = 1 THEN verb \o <<" ">> \o files[1]
    ELSE verb \o <<" ">> \o Itoa(Len(files)) \o <<" ","f","i","l","e","s">>

FilesSubject(verb, files) ==
    IF Len(files) = 1 THEN verb \o <<" ">> \o Base(files[1])
    ELSE verb \o <<" ">> \o Itoa(Len(files)) \o <<" ","f","i","l","e","s">>

generateFallbackCommitMessage(diff, options) ==
    LET acc == ScanDiff(Split(diff, <<"\n">>), diff,
                        [addedFiles |-> <<>>, modifiedFiles |-> <<>>, deletedFiles |-> <<>>,
                         addedLines |-> 0, deletedLines |-> 0])
        type == IF options.Type # <<>> THEN options.Type
                ELSE IF Len(acc.addedFiles) > 0 THEN <<"f","e","a","t">>
                ELSE IF Len(acc.deletedFiles) > 0 THEN <<"c","h","o","r","e">>
                ELSE <<"f","i","x">>
        subject == IF Len(acc.addedFiles) > 0 THEN FilesSubject(<<"a","d","d">>, acc.addedFiles)
                   ELSE IF Len(acc.deletedFiles) > 0 THEN FilesSubject(<<"r","e","m","o","v",
                           "e">>, acc.deletedFiles)
                   ELSE IF Len(acc.modifiedFiles) > 0
                        THEN FilesSubject(<<"u","p","d","a","t","e">>, acc.modifiedFiles)
                        ELSE <<"u","p","d","a","t","e"," ","c","o","d","e">>
        fullMessage ==
            IF options.Conventional
            THEN IF options.Scope # <<>>
                 THEN type \o <<"(">> \o options.Scope \o <<")",":"," ">> \o subject
                 ELSE type \o <<":"," ">> \o subject
            ELSE Title(subject)
    IN  [Type |-> type, Scope |-> options.Scope, Subject |-> subject, Body |-> <<>>,
         Footer |-> <<>>, FullMessage |-> fullMessage, panic |-> FALSE]

(***************************************************************************)
(* Provider factory and the task wrappers of the two backends.              *)
(***************************************************************************)
\* NewProvider; clientErr is the outcome of genai.NewClient
NewProvider(config, clientErr) ==
    CASE config.Provider = "openai" ->
            IF config.APIKey = <<>>
            THEN [provider |-> "none", err |-> <<"O","p","e","n","A","I"," ","A","P","I"," ","k",
                    "e","y"," ","i","s"," ","r","e","q","u","i","r","e","d">>]
            ELSE [provider |-> "openai", err |-> Nil]
      [] config.Provider = "gemini" ->
            IF clientErr
            THEN [provider |-> "none", err |-> <<"f","a","i","l","e","d"," ","t","o"," ","c","r",
                    "e","a","t","e"," ","G","e","m","i","n","i"," ","c","l","i","e","n","t">>]
            ELSE [provider |-> "gemini", err |-> Nil]
      [] OTHER -> [provider |-> "none", err |-> <<"u","n","s","u","p","p","o","r","t","e","d"," ",
              "A","I"," ","p","r","o","v","i","d","e","r">>]

\* a candidate is its text parts; a part is a text or some other kind of part
extractTextFromResponse(resp) ==
    LET PartTexts(parts) == SelectSeq(parts, LAMBDA p : p.IsText)
        RECURSIVE Texts_(_)
        Texts_(cands) ==
            IF cands = <<>> THEN <<>>
            ELSE (IF Head(cands).HasContent
                  THEN [i \in 1..Len(PartTexts(Head(cands).Parts)) |->
                            PartTexts(Head(cands).Parts)[i].Text]
                  ELSE <<>>) \o Texts_(Tail(cands))
    IN  Join(Texts_(resp.Candidates), <<"\n">>)

EmptyMessage ==
    [Type |-> <<>>, Scope |-> <<>>, Subject |-> <<>>, Body |-> <<>>, Footer |-> <<>>,
     FullMessage |-> <<>>, panic |-> FALSE]

GenerateCommitMessage_Gemini(r, resp, options) ==
    IF r.err # Nil
    THEN [msg |-> EmptyMessage, err |-> <<"f","a","i","l","e","d"," ","t","o"," ","g","e","n","e",
            "r","a","t","e"," ","c","o","m","m","i","t"," ","m","e","s","s","a","g","e",":",
            " ">> \o r.err]
    ELSE IF Len(resp.Candidates) = 0
    THEN [msg |-> EmptyMessage, err |-> <<"n","o"," ","r","e","s","p","o","n","s","e"," ","f","r",
            "o","m"," ","G","e","m","i","n","i">>]
    ELSE [msg |-> parseCommitMessage(extractTextFromResponse(resp), options.Conventional),
          err |-> Nil]

GenerateCommitMessage_OpenAI(r, response, options) ==
    IF r.err # Nil
    THEN [msg |-> EmptyMessage, err |-> <<"f","a","i","l","e","d"," ","t","o"," ","g","e","n","e",
            "r","a","t","e"," ","c","o","m","m","i","t"," ","m","e","s","s","a","g","e",":",
            " ">> \o r.err]
    ELSE [msg |-> parseCommitMessage(response, options.Conventional), err |-> Nil]

EmptyReview ==
    [Summary |-> <<>>, Issues |-> <<>>, Suggestions |-> <<>>, SecurityRisks |-> <<>>,
     Performance |-> <<>>]

ReviewCode_Gemini(r, resp, options) ==
    IF r.err # Nil
    THEN [review |-> EmptyReview, err |-> <<"f","a","i","l","e","d"," ","t","o"," ","r","e","v","i",
            "e","w"," ","c","o","d","e",":"," ">> \o r.err]
    ELSE IF Len(resp.Candidates) = 0
    THEN [review |-> EmptyReview, err |-> <<"n","o"," ","r","e","s","p","o","n","s","e"," ","f","r",
            "o","m"," ","G","e","m","i","n","i">>]
    ELSE [review |-> parseReviewResponse(extractTextFromResponse(resp), options), err |-> Nil]

ReviewCode_OpenAI(r, response, options) ==
    IF r.err # Nil
    THEN [review |-> EmptyReview, err |-> <<"f","a","i","l","e","d"," ","t","o"," ","r","e","v","i",
            "e","w"," ","c","o","d","e",":"," ">> \o r.err]
    ELSE [review |-> parseReviewResponse(response, options), err |-> Nil]

(***************************************************************************)
(* The inputs of a command run: configuration, flags, and what git, the     *)
(* provider and the terminal answer.                                        *)
(***************************************************************************)
Commands == {"commit", "pr", "review"}

Providers == {"openai", "gemini", "claude"}

APIKeys == {<<>>, <<"y","o","u","r","-","g","e","m","i","n","i","-","a","p","i","-","k","e","y","-",
        "h","e","r","e">>, <<"y","o","u","r","-","o","p","e","n","a","i","-","a","p","i","-","k",
        "e","y","-","h","e","r","e">>, <<"s","k","-","1">>}

Configs == [Provider : Providers, APIKey : APIKeys]

CommitFlags ==
    [commitScope : {<<>>, <<"a","p","i">>}, interactive : BOOLEAN, conventional : BOOLEAN,
     push : BOOLEAN, dryRun : BOOLEAN]

PRFlags == [prTargetBranch : {<<"m","a","i","n">>}, prInteractive : BOOLEAN]

ReviewFlags == [reviewStaged : BOOLEAN, reviewVerbose : BOOLEAN]

BranchNames == {<<"m","a","i","n">>, <<"f","i","x","/","1","2","3","4","-","a">>}

Diffs ==
    {<<>>,
     <<"d","i","f","f"," ","-","-","g","i","t"," ","a","/","x",".","g","o"," ","b","/","x",".","g",
             "o","\n","-","-","-"," ","a","/","x",".","g","o","\n","+","+","+"," ","b","/","x",".",
             "g","o","\n","-","a","\n","+","b">>,
     <<"d","i","f","f"," ","-","-","g","i","t"," ","a","/","n",".","g","o"," ","b","/","n",".","g",
             "o","\n","n","e","w"," ","f","i","l","e"," ","m","o","d","e"," ","1","0","0","6","4",
             "4","\n","-","-","-"," ","/","d","e","v","/","n","u","l","l","\n","+","+","+"," ","b",
             "/","n",".","g","o","\n","+","a">>}

ResponseTexts == {<<>>, <<" ">>, <<"a">>, <<"f","(","s",")",":"," ","a","\n","\n","b">>}

TextPart(t) == [IsText |-> TRUE, Text |-> t]

GeminiResponses ==
    {[Candidates |-> <<[HasContent |-> TRUE, Parts |-> <<TextPart(t)>>]>>] : t \in ResponseTexts}
    \cup {[Candidates |-> <<[HasContent |-> FALSE, Parts |-> <<>>]>>],
          [Candidates |-> <<[HasContent |-> TRUE, Parts |-> <<TextPart(<<"a">>)>>],
                            [HasContent |-> TRUE,
                             Parts |-> <<[IsText |-> FALSE, Text |-> <<>>], TextPart(<<"b">>)>>]>>]}

Answers == {<<>>, <<"y">>, <<"Y">>, <<"n">>, <<"y","e","s">>}

CustomMessages == {<<>>, <<"w","i","p">>}

\* what the finished request of backend p hands to the wrapper
Contents(p, r) ==
    IF r.err # Nil THEN {[Candidates |-> <<>>]}
    ELSE IF p = "gemini"
         THEN IF r.resp = "empty" THEN {[Candidates |-> <<>>]} ELSE GeminiResponses
         ELSE ResponseTexts

Backend(p) == IF p = "gemini" THEN gem ELSE oai

(***************************************************************************)
(* The commands as step machines: one step per interaction with the         *)
(* configuration, git, the provider or the terminal.                        *)
(***************************************************************************)
KeyNotConfigured(key) ==
    key = <<>> \/ key = <<"y","o","u","r","-","g","e","m","i","n","i","-","a","p","i","-","k","e",
            "y","-","h","e","r","e">> \/ key = <<"y","o","u","r","-","o","p","e","n","a","i","-",
            "a","p","i","-","k","e","y","-","h","e","r","e">>

NoLocals ==
    [branchName |-> <<>>, ticketNumber |-> <<>>, diff |-> <<>>, diffResolved |-> FALSE,
     provider |-> "none", commitMsg |-> EmptyMessage, generated |-> "no", err |-> Nil,
     review |-> EmptyReview, answers |-> <<>>]

EmptyRepo == [commitArgs |-> <<>>, commits |-> <<>>, pushes |-> 0]

\* the command returns: nil or the error named by code
Exit(code, shown, loc) ==
    [pc |-> "done", exit |-> code, effects |-> effects \o shown, local |-> loc]

Goto(p, shown, loc) == [pc |-> p, exit |-> exit, effects |-> effects \o shown, local |-> loc]

Apply(n) == pc' = n.pc /\ exit' = n.exit /\ effects' = n.effects /\ local' = n.local

\* the provider's task method is entered with context c
StartRequest(p, c) ==
    /\ ctx' = c
    /\ gem' = IF p = "gemini" THEN StartedRequest ELSE gem
    /\ oai' = IF p = "openai" THEN StartedRequest ELSE oai
    /\ outcomes' = outcomes

CommitStart ==
    /\ command = "commit" /\ pc = "start"
    /\ \E loadErr \in BOOLEAN :
        Apply(IF loadErr THEN Exit("failed to load config", <<>>, local)
              ELSE IF KeyNotConfigured(cfg.APIKey)
                   THEN Exit("nil", <<"ShowError: API key not configured", "ShowInfo">>, local)
                   ELSE Goto("branch", <<>>, local))
    /\ UNCHANGED <<retryVars, parseVars, command, cfg, flags, commitType, repo>>

CommitBranch ==
    /\ command = "commit" /\ pc = "branch"
    /\ \E name \in BranchNames, gitErr \in BOOLEAN :
        LET branchName == IF gitErr THEN <<>> ELSE name
            details == ExtractCommitDetails(branchName)
        IN  /\ commitType' = IF details.commitType # <<>> THEN details.commitType ELSE commitType
            /\ Apply(Goto("diff",
                          IF gitErr THEN <<"ShowWarning: Could not get current branch name">>
                          ELSE <<>>,
                          [local EXCEPT !.branchName = branchName,
                                        !.ticketNumber = details.ticketNumber]))
    /\ UNCHANGED <<retryVars, parseVars, command, cfg, flags, repo>>

\* the run goes on to the provider although --dry-run is set
CommitDiff_DryRunIgnored ==
    /\ command = "commit" /\ pc = "diff"
    /\ \E diff \in Diffs, gitErr \in BOOLEAN, clientErr \in BOOLEAN :
        LET np == NewProvider(cfg, clientErr)
            loc == [local EXCEPT !.diff = diff, !.diffResolved = TRUE]
            n == IF gitErr THEN Exit("failed to get staged changes", <<>>, local)
                 ELSE IF diff = <<>>
                 THEN Exit("nil", <<"ShowWarning: No staged changes found">>, loc)
                 ELSE IF np.err # Nil
                 THEN Exit("failed to create AI provider", <<>>, [loc EXCEPT !.err = np.err])
                 ELSE Goto("generate", <<"ShowInfo: Analyzing staged changes">>,
                           [loc EXCEPT !.provider = np.provider])
        IN  /\ Apply(n)
            /\ IF n.pc = "generate" THEN StartRequest(n.local.provider, "armed")
               ELSE UNCHANGED retryVars
    /\ UNCHANGED <<parseVars, command, cfg, flags, commitType, repo>>

\* the staged diff, the dry-run display and the provider
CommitDiff ==
    /\ command = "commit" /\ pc = "diff"
    /\ \E diff \in Diffs, gitErr \in BOOLEAN, clientErr \in BOOLEAN :
        LET np == NewProvider(cfg, clientErr)
            loc == [local EXCEPT !.diff = diff, !.diffResolved = TRUE]
            n == IF gitErr THEN Exit("failed to get staged changes", <<>>, local)
                 ELSE IF diff = <<>>
                 THEN Exit("nil", <<"ShowWarning: No staged changes found">>, loc)
                 ELSE IF flags.dryRun THEN Exit("nil", <<"ShowDryRun">>, loc)
                 ELSE IF np.err # Nil
                 THEN Exit("failed to create AI provider", <<>>, [loc EXCEPT !.err = np.err])
                 ELSE Goto("generate", <<"ShowInfo: Analyzing staged changes">>,
                           [loc EXCEPT !.provider = np.provider])
        IN  /\ Apply(n)
            /\ IF n.pc = "generate" THEN StartRequest(n.local.provider, "armed")
               ELSE UNCHANGED retryVars
    /\ UNCHANGED <<parseVars, command, cfg, flags, commitType, repo>>

\* the ticket number is put before the subject, the message is shown, and the command
\* goes on to the confirmation prompt or straight to git commit
ShowMessage(msg, shown, loc) ==
    LET m == IF loc.ticketNumber # <<>>
             THEN [msg EXCEPT !.Subject = loc.ticketNumber \o <<"-">> \o @]
             ELSE msg
    IN  Goto(IF flags.interactive THEN "confirm" ELSE "commit",
             shown \o <<"ShowCommitMessage">>, [loc EXCEPT !.commitMsg = m])

AfterGenerate(res, options) ==
    IF res.err # Nil
    THEN IF IsQuotaError(res.err)
         THEN LET fallbackMsg == generateFallbackCommitMessage(local.diff, options)
                  shown == <<"ShowWarning: API quota exceeded", "ShowCommitMessage">>
                  loc == [local EXCEPT !.commitMsg = fallbackMsg, !.generated = "fallback",
                                       !.err = res.err]
              IN  IF flags.interactive THEN Goto("editprompt", shown, loc)
                  ELSE ShowMessage(fallbackMsg, shown, loc)
         ELSE Exit("failed to generate commit message", <<>>, [local EXCEPT !.err = res.err])
    ELSE ShowMessage(res.msg, <<>>, [local EXCEPT !.generated = "ai"])

CommitGenerated ==
    /\ command = "commit" /\ pc = "generate"
    /\ Backend(local.provider).pc = "done"
    /\ \E content \in Contents(local.provider, Backend(local.provider)) :
        LET options == [Type |-> commitType, Scope |-> flags.commitScope,
                        Conventional |-> flags.conventional]
            res == IF local.provider = "gemini"
                   THEN GenerateCommitMessage_Gemini(gem, content, options)
                   ELSE GenerateCommitMessage_OpenAI(oai, content, options)
        IN  Apply(AfterGenerate(res, options))
    /\ UNCHANGED <<retryVars, parseVars, command, cfg, flags, commitType, repo>>

CommitEditPrompt ==
    /\ command = "commit" /\ pc = "editprompt"
    /\ \E response \in Answers, customMsg \in CustomMessages :
        LET edit == ToLower(response) = <<"y">> \/ ToLower(response) = <<"y","e","s">>
            msg == IF edit /\ customMsg # <<>>
                   THEN [local.commitMsg EXCEPT !.FullMessage = customMsg,
                                                !.Subject = customMsg]
                   ELSE local.commitMsg
        IN  Apply(ShowMessage(msg, <<>>, local))
    /\ UNCHANGED <<retryVars, parseVars, command, cfg, flags, commitType, repo>>

\* the prompt proceeds on any answer
CommitConfirm_AnyAnswer ==
    /\ command = "commit" /\ pc = "confirm"
    /\ \E response \in Answers :
        Apply(Goto("commit", <<>>, [local EXCEPT !.answers = Append(@, response)]))
    /\ UNCHANGED <<retryVars, parseVars, command, cfg, flags, commitType, repo>>

\* local.answers keeps what the user typed at the confirmation prompt
CommitConfirm ==
    /\ command = "commit" /\ pc = "confirm"
    /\ \E response \in Answers :
        LET loc == [local EXCEPT !.answers = Append(@, response)]
        IN  Apply(IF response # <<>> /\ response # <<"y">> /\ response # <<"Y">>
                  THEN Exit("nil", <<"ShowInfo: Commit cancelled">>, loc)
                  ELSE Goto("commit", <<>>, loc))
    /\ UNCHANGED <<retryVars, parseVars, command, cfg, flags, commitType, repo>>

\* git commit -m message aborts on a message that is empty once stripped
GitAcceptsMessage(message) == TrimSpace(message) # <<>>

CommitCreate ==
    /\ command = "commit" /\ pc = "commit"
    /\ \E gitErr \in BOOLEAN :
        LET message == local.commitMsg.FullMessage
            failed == gitErr \/ ~GitAcceptsMessage(message)
        IN  /\ repo' = [repo EXCEPT !.commitArgs = Append(@, message),
                                    !.commits = IF failed THEN @ ELSE Append(@, message)]
            /\ Apply(IF failed THEN Exit("failed to commit", <<>>, local)
                     ELSE IF flags.push
                          THEN Goto("push", <<"ShowSuccess: Commit created">>, local)
                          ELSE Exit("nil", <<"ShowSuccess: Commit created">>, local))
    /\ UNCHANGED <<retryVars, parseVars, command, cfg, flags, commitType>>

CommitPush ==
    /\ command = "commit" /\ pc = "push"
    /\ \E gitErr \in BOOLEAN :
        /\ repo' = [repo EXCEPT !.pushes = @ + 1]
        /\ Apply(Exit("nil", IF gitErr THEN <<"ShowWarning: Failed to push">>
                             ELSE <<"ShowSuccess: Pushed">>, local))
    /\ UNCHANGED <<retryVars, parseVars, command, cfg, flags, commitType>>

PRStart ==
    /\ command = "pr" /\ pc = "start"
    /\ \E loadErr \in BOOLEAN :
        Apply(IF loadErr THEN Exit("failed to load config", <<>>, local)
              ELSE IF KeyNotConfigured(cfg.APIKey)
                   THEN Exit("nil", <<"ShowError: API key not configured", "ShowInfo">>, local)
                   ELSE Goto("branch", <<>>, local))
    /\ UNCHANGED <<retryVars, parseVars, command, cfg, flags, commitType, repo>>

PRBranch ==
    /\ command = "pr" /\ pc = "branch"
    /\ \E currentBranch \in BranchNames, gitErr \in BOOLEAN :
        Apply(IF gitErr THEN Exit("failed to get current branch", <<>>, local)
              ELSE IF currentBranch = flags.prTargetBranch
                   THEN Exit("current branch is the same as target branch", <<>>,
                             [local EXCEPT !.branchName = currentBranch])
                   ELSE Goto("diff", <<"ShowInfo: Analyzing changes">>,
                             [local EXCEPT !.branchName = currentBranch]))
    /\ UNCHANGED <<retryVars, parseVars, command, cfg, flags, commitType, repo>>

PRDiff ==
    /\ command = "pr" /\ pc = "diff"
    /\ \E diff \in Diffs, gitErr \in BOOLEAN, logErr \in BOOLEAN, clientErr \in BOOLEAN :
        LET np == NewProvider(cfg, clientErr)
            loc == [local EXCEPT !.diff = diff, !.diffResolved = TRUE]
            n == IF gitErr THEN Exit("failed to get branch diff", <<>>, local)
                 ELSE IF diff = <<>>
                 THEN Exit("nil", <<"ShowWarning: No differences found">>, loc)
                 ELSE IF logErr THEN Exit("failed to get branch commits", <<>>, loc)
                 ELSE IF np.err # Nil
                 THEN Exit("failed to create AI provider", <<"ShowInfo: Found commits">>,
                           [loc EXCEPT !.err = np.err])
                 ELSE Goto("generate", <<"ShowInfo: Found commits",
                                         "ShowInfo: Generating PR description">>,
                           [loc EXCEPT !.provider = np.provider])
        IN  /\ Apply(n)
            /\ IF n.pc = "generate" THEN StartRequest(n.local.provider, "armed")
               ELSE UNCHANGED retryVars
    /\ UNCHANGED <<parseVars, command, cfg, flags, commitType, repo>>

\* generatePRDescription asks the provider for a commit message, not conventional
PRGenerated ==
    /\ command = "pr" /\ pc = "generate"
    /\ Backend(local.provider).pc = "done"
    /\ \E content \in Contents(local.provider, Backend(local.provider)) :
        LET commitOptions == [Type |-> <<>>, Scope |-> <<>>, Conventional |-> FALSE]
            res == IF local.provider = "gemini"
                   THEN GenerateCommitMessage_Gemini(gem, content, commitOptions)
                   ELSE GenerateCommitMessage_OpenAI(oai, content, commitOptions)
            loc == [local EXCEPT !.commitMsg = res.msg, !.generated = "ai"]
        IN  Apply(IF res.err # Nil
                  THEN Exit("failed to generate PR description", <<>>,
                            [local EXCEPT !.err = res.err])
                  ELSE IF flags.prInteractive
                       THEN Goto("editprompt", <<"ShowPRDescription">>, loc)
                       ELSE Exit("nil", <<"ShowPRDescription", "ShowSuccess">>, loc))
    /\ UNCHANGED <<retryVars, parseVars, command, cfg, flags, commitType, repo>>

PREditPrompt ==
    /\ command = "pr" /\ pc = "editprompt"
    /\ \E response \in Answers :
        Apply(Exit("nil",
                   IF ToLower(response) = <<"y">> \/ ToLower(response) = <<"y","e","s">>
                   THEN <<"ShowInfo: Interactive editing coming soon", "ShowSuccess">>
                   ELSE <<"ShowSuccess">>,
                   local))
    /\ UNCHANGED <<retryVars, parseVars, command, cfg, flags, commitType, repo>>

ReviewStart ==
    /\ command = "review" /\ pc = "start"
    /\ \E loadErr \in BOOLEAN :
        Apply(IF loadErr THEN Exit("failed to load config", <<>>, local)
              ELSE Goto("diff", <<>>, local))
    /\ UNCHANGED <<retryVars, parseVars, command, cfg, flags, commitType, repo>>

\* the context of the review is the command's own context: it carries a deadline only
\* if the program entry gave it one
ReviewDiff ==
    /\ command = "review" /\ pc = "diff"
    /\ \E diff \in Diffs, gitErr \in BOOLEAN, clientErr \in BOOLEAN,
          cmdContext \in {"background", "armed"} :
        LET np == NewProvider(cfg, clientErr)
            loc == [local EXCEPT !.diff = diff, !.diffResolved = TRUE]
            shown == <<IF flags.reviewStaged THEN "ShowInfo: Reviewing staged changes"
                       ELSE "ShowInfo: Reviewing unstaged changes">>
            preview == IF flags.reviewVerbose THEN <<"ShowDiff">> ELSE <<>>
            n == IF gitErr THEN Exit("failed to get diff", shown, local)
                 ELSE IF diff = <<>> THEN Exit("no changes found to review", shown, loc)
                 ELSE IF np.err # Nil
                 THEN Exit("failed to create AI provider", shown \o preview,
                           [loc EXCEPT !.err = np.err])
                 ELSE Goto("generate", shown \o preview \o <<"ShowInfo: Sending diff to AI">>,
                           [loc EXCEPT !.provider = np.provider])
        IN  /\ Apply(n)
            /\ IF n.pc = "generate" THEN StartRequest(n.local.provider, cmdContext)
               ELSE UNCHANGED retryVars
    /\ UNCHANGED <<parseVars, command, cfg, flags, commitType, repo>>

ReviewGenerated ==
    /\ command = "review" /\ pc = "generate"
    /\ Backend(local.provider).pc = "done"
    /\ \E content \in Contents(local.provider, Backend(local.provider)) :
        LET reviewOptions == [Verbose |-> flags.reviewVerbose]
            res == IF local.provider = "gemini"
                   THEN ReviewCode_Gemini(gem, content, reviewOptions)
                   ELSE ReviewCode_OpenAI(oai, content, reviewOptions)
        IN  Apply(IF res.err # Nil
                  THEN Exit("failed to get code review", <<>>, [local EXCEPT !.err = res.err])
                  ELSE Exit("nil", <<"ShowReview">>,
                            [local EXCEPT !.review = res.review, !.generated = "ai"]))
    /\ UNCHANGED <<retryVars, parseVars, command, cfg, flags, commitType, repo>>

FlagsOf(c) ==
    CASE c = "commit" -> CommitFlags
      [] c = "pr"     -> PRFlags
      [] c = "review" -> ReviewFlags

\* a run starts with the loaded flags; --type and --scope are given together or not at all
Init ==
    /\ NoRetry /\ NoNormalizer
    /\ command \in Commands
    /\ cfg \in Configs
    /\ flags \in FlagsOf(command)
    /\ commitType = IF command = "commit" /\ flags.commitScope # <<>> THEN <<"d","o","c","s">>
                    ELSE <<>>
    /\ repo = EmptyRepo
    /\ pc = "start"
    /\ local = NoLocals
    /\ effects = <<>>
    /\ exit = "running"

Next ==
    \/ CommitStart \/ CommitBranch \/ CommitDiff \/ CommitGenerated \/ CommitEditPrompt
    \/ CommitConfirm \/ CommitCreate \/ CommitPush
    \/ PRStart \/ PRBranch \/ PRDiff \/ PRGenerated \/ PREditPrompt
    \/ ReviewStart \/ ReviewDiff \/ ReviewGenerated
    \/ GeminiCall \/ GeminiBackoff \/ OpenAICall \/ DeadlineExceeded

Spec == Init /\ [][Next]_vars

(***************************************************************************)
(* Claims about the commands, checked under Spec.                           *)
(***************************************************************************)
Shown(what) == \E i \in DOMAIN effects : effects[i] = what

\* the provider's task method has returned to the command
GenerationOver == local.provider # "none" /\ pc # "generate"

\* C5: a commit message that was generated, by a backend or by the fallback heuristic,
\* has a non-empty FullMessage, and git commit is never invoked with an empty message.
C5_FullMessageNonEmpty ==
    /\ (command \in {"commit", "pr"} /\ local.generated # "no")
          => local.commitMsg.FullMessage # <<>>
    /\ \A i \in DOMAIN repo.commitArgs : repo.commitArgs[i] # <<>>

C7_DeadlineBoundsEverySuspension ==
    [][ /\ (ctx = "done" /\ gem.pc \in {"call", "backoff"} /\ gem' # gem)
              => gem'.pc = "done" /\ gem'.err = ContextErr
        /\ (ctx = "done" /\ oai.pc = "call" /\ oai' # oai)
              => oai'.pc = "done" /\ oai'.err = OpenAIErrorMsg(ContextErr)
        /\ (ctx = "done" /\ pc \in {"editprompt", "confirm"} /\ pc' # pc)
              => pc' = "done" /\ exit' # "nil" ]_vars

\* C8: with a missing or placeholder API key no provider call and no git commit is made,
\* and the command ends with an error.
C8_MissingKeyIsConfigError ==
    KeyNotConfigured(cfg.APIKey) =>
        /\ outcomes = <<>> /\ gem.calls = 0 /\ oai.calls = 0
        /\ repo.commitArgs = <<>>
        /\ pc = "done" => exit # "nil"

\* C9: when the resolved diff is empty the command has shown a warning and ended with
\* exit status zero, with no provider constructed or called and no git commit or push.
C9_EmptyDiffExitsZero ==
    (local.diffResolved /\ local.diff = <<>>) =>
        /\ pc = "done" /\ exit = "nil"
        /\ Shown("ShowWarning: No staged changes found")
              \/ Shown("ShowWarning: No differences found")
        /\ local.provider = "none" /\ outcomes = <<>>
        /\ repo.commitArgs = <<>> /\ repo.pushes = 0

(***************************************************************************)
(* SpecReview: the normalizer applied to review-shaped texts: headings,    *)
(* bullets with each of the three markers, and plain lines.                 *)
(***************************************************************************)
ReviewLines ==
    { <<"#","#"," ","I","s","s","u","e","s">>, <<"#","#"," ","S","u","g","g","e","s","t","i","o",
            "n","s">>, <<"#","#"," ","S","e","c","u","r","i","t","y"," ","R","i","s","k",
            "s">>, <<"#","#"," ","P","e","r","f","o","r","m","a","n","c","e"," ","I","s","s","u",
            "e","s">>,
      <<"#","#"," ","S","u","m","m","a","r","y">>, <<"-"," ","a">>, <<"*"," ","b",
              " ">>, <<Bullet, " ", "c">>, <<"o","k">> }

ReviewTexts ==
    { Join(ls, <<"\n">>) : ls \in UNION { [1..n -> ReviewLines] : n \in 1..MaxLines } }

InitReview ==
    /\ text \in ReviewTexts
    /\ conventional \in BOOLEAN
    /\ out = NoOutput
    /\ reviews = <<>>
    /\ NoRetry
    /\ NoCommand

SpecReview == InitReview /\ [][NextParse]_vars

(***************************************************************************)
(* Claims about review parsing, checked under SpecReview.                   *)
(***************************************************************************)
\* the bullets that stand under a heading with the given lower-cased title,
\* marker stripped, in input order
RECURSIVE BulletsUnder(_, _, _)
BulletsUnder(lines, title, inside) ==
    IF lines = <<>> THEN <<>>
    ELSE LET line == TrimSpace(Head(lines))
         IN  IF HasPrefix(line, <<"#","#"," ">>)
             THEN BulletsUnder(Tail(lines), title, ToLower(TrimPrefix(line, <<"#","#",
                     " ">>)) = title)
             ELSE IF inside /\ IsBulletLine(line)
             THEN <<BulletContent(line)>> \o BulletsUnder(Tail(lines), title, inside)
             ELSE BulletsUnder(Tail(lines), title, inside)

Descriptions(findings) == [i \in 1..Len(findings) |-> findings[i].Description]

ReviewReturned == out.fn = "parseReviewResponse"

\* C11: the bullets inside "## Security Risks" become the SecurityRisks
\* findings and the bullets inside "## Performance Issues" become the
\* Performance findings, one finding per bullet, in order, marker stripped.
C11_SecurityAndPerformanceFindings ==
    ReviewReturned =>
        /\ Descriptions(out.result.SecurityRisks)
               = BulletsUnder(Split(text, <<"\n">>), <<"s","e","c","u","r","i","t","y"," ","r","i",
                       "s","k","s">>, FALSE)
        /\ Descriptions(out.result.Performance)
               = BulletsUnder(Split(text, <<"\n">>), <<"p","e","r","f","o","r","m","a","n","c","e",
                       " ","i","s","s","u","e","s">>, FALSE)

\* the text has a "## " heading with the given lower-cased title
HasHeading(t, title) ==
    \E i \in 1..Len(Split(t, <<"\n">>)) :
        LET line == TrimSpace(Split(t, <<"\n">>)[i])
        IN  HasPrefix(line, <<"#","#"," ">>) /\ ToLower(TrimPrefix(line, <<"#","#"," ">>)) = title

\* C12: each bullet under "## Issues" becomes exactly one Issues finding and
\* each bullet under "## Suggestions" exactly one Suggestions finding, in
\* input order, marker and surrounding whitespace stripped; a findings list
\* whose heading is absent from the text is empty.
C12_OneFindingPerBullet ==
    ReviewReturned =>
        /\ Descriptions(out.result.Issues) = BulletsUnder(Split(text, <<"\n">>), <<"i","s","s","u",
                "e","s">>, FALSE)
        /\ Descriptions(out.result.Suggestions)
               = BulletsUnder(Split(text, <<"\n">>), <<"s","u","g","g","e","s","t","i","o","n",
                       "s">>, FALSE)
        /\ ~HasHeading(text, <<"i","s","s","u","e","s">>) => out.result.Issues = <<>>
        /\ ~HasHeading(text, <<"s","u","g","g","e","s","t","i","o","n",
                "s">>) => out.result.Suggestions = <<>>
        /\ ~HasHeading(text, <<"s","e","c","u","r","i","t","y"," ","r","i","s","k",
                "s">>) => out.result.SecurityRisks = <<>>
        /\ ~HasHeading(text, <<"p","e","r","f","o","r","m","a","n","c","e"," ","i","s","s","u","e",
                "s">>) => out.result.Performance = <<>>

(***************************************************************************)
(* encoding/json as GeneratePRDescription uses it: json.Unmarshal of the    *)
(* response text into a PRDescriptionAI.  The document is scanned           *)
(* character by character; \u escapes are checked but their code point is  *)
(* not computed.                                                            *)
(***************************************************************************)
RECURSIVE SkipSpace(_)
SkipSpace(s) == IF s # <<>> /\ Head(s) \in {" ", "\t", "\n", "\r"} THEN SkipSpace(Tail(s)) ELSE s

\* the rest of a string literal after its opening quote
RECURSIVE ScanString(_, _)
ScanString(s, acc) ==
    LET HexDigits == {"0","1","2","3","4","5","6","7","8","9","a","b","c","d","e","f",
                      "A","B","C","D","E","F"}
        Unescape(c) ==
            CASE c = "n" -> "\n" [] c = "t" -> "\t" [] c = "r" -> "\r" [] c = "f" -> "\f"
              [] c = "b" -> "BACKSPACE" [] OTHER -> c
    IN
    IF s = <<>> THEN [ok |-> FALSE]
    ELSE IF Head(s) = "\"" THEN [ok |-> TRUE, val |-> [kind |-> "string",
             str |-> acc], rest |-> Tail(s)]
    ELSE IF Head(s) \in {"\n", "\t", "\r", "\f"} THEN [ok |-> FALSE]
    ELSE IF Head(s) # "\\" THEN ScanString(Tail(s), Append(acc, Head(s)))
    ELSE IF Len(s) < 2 THEN [ok |-> FALSE]
    ELSE IF s[2] \in {"\"", "\\", "/", "b", "f", "n", "r", "t"}
    THEN ScanString(SubSeq(s, 2 + 1, Len(s)), Append(acc, Unescape(s[2])))
    ELSE IF s[2] = "u" /\ Len(s) >= 6 /\ \A i \in 3..6 : s[i] \in HexDigits
    THEN ScanString(SubSeq(s, 6 + 1, Len(s)), Append(acc, "UNICODE"))
    ELSE [ok |-> FALSE]

RECURSIVE DigitRun(_)
DigitRun(s) == IF s # <<>> /\ IsDigit(Head(s))
               THEN 1 + DigitRun(Tail(s)) ELSE 0

ScanNumber(s) ==
    LET s1 == IF s # <<>> /\ Head(s) = "-" THEN Tail(s) ELSE s
        n1 == DigitRun(s1)
        s2 == SubSeq(s1, n1 + 1, Len(s1))
        hasFrac == s2 # <<>> /\ Head(s2) = "."
        nf == IF hasFrac THEN DigitRun(Tail(s2)) ELSE 0
        s3 == IF hasFrac THEN SubSeq(s2, 1 + nf + 1, Len(s2)) ELSE s2
        hasExp == s3 # <<>> /\ Head(s3) \in {"e", "E"}
        s4 == IF hasExp /\ Len(s3) >= 2 /\ s3[2] \in {"+", "-"} THEN SubSeq(s3, 2 + 1, Len(s3))
              ELSE IF hasExp THEN Tail(s3) ELSE s3
        ne == IF hasExp THEN DigitRun(s4) ELSE 0
    IN  IF n1 >= 1 /\ (Head(s1) = "0" => n1 = 1) /\ (hasFrac => nf >= 1) /\ (hasExp => ne >= 1)
        THEN [ok |-> TRUE, val |-> [kind |-> "number"], rest |-> SubSeq(s4, ne + 1, Len(s4))]
        ELSE [ok |-> FALSE]

RECURSIVE ParseValue(_), ParseElements(_, _), ParseMembers(_, _)
ParseValue(s0) ==
    LET s == SkipSpace(s0)
    IN  IF s = <<>> THEN [ok |-> FALSE]
        ELSE IF Head(s) = "\"" THEN ScanString(Tail(s), <<>>)
        ELSE IF Head(s) = "["
        THEN LET r == SkipSpace(Tail(s))
             IN  IF r # <<>> /\ Head(r) = "]"
                 THEN [ok |-> TRUE, val |-> [kind |-> "array", items |-> <<>>], rest |-> Tail(r)]
                 ELSE ParseElements(r, <<>>)
        ELSE IF Head(s) = "{"
        THEN LET r == SkipSpace(Tail(s))
             IN  IF r # <<>> /\ Head(r) = "}"
                 THEN [ok |-> TRUE, val |-> [kind |-> "object", members |-> <<>>], rest |-> Tail(r)]
                 ELSE ParseMembers(r, <<>>)
        ELSE IF HasPrefix(s, <<"t","r","u",
                "e">>) THEN [ok |-> TRUE, val |-> [kind |-> "bool"], rest |-> SubSeq(s, 4 + 1, Len(s))]
        ELSE IF HasPrefix(s, <<"f","a","l","s",
                "e">>) THEN [ok |-> TRUE, val |-> [kind |-> "bool"], rest |-> SubSeq(s, 5 + 1, Len(s))]
        ELSE IF HasPrefix(s, <<"n","u","l",
                "l">>) THEN [ok |-> TRUE, val |-> [kind |-> "null"], rest |-> SubSeq(s, 4 + 1, Len(s))]
        ELSE ScanNumber(s)

\* the elements of an array, s at the start of an element
ParseElements(s, acc) ==
    LET v == ParseValue(s)
    IN  IF ~v.ok THEN [ok |-> FALSE]
        ELSE LET r == SkipSpace(v.rest)
             IN  IF r = <<>> THEN [ok |-> FALSE]
                 ELSE IF Head(r) = "," THEN ParseElements(Tail(r), Append(acc, v.val))
                 ELSE IF Head(r) = "]"
                 THEN [ok |-> TRUE, val |-> [kind |-> "array",
                          items |-> Append(acc, v.val)], rest |-> Tail(r)]
                 ELSE [ok |-> FALSE]

\* the members of an object, s0 before a key
ParseMembers(s0, acc) ==
    LET s == SkipSpace(s0)
        k == ScanString(Tail(s), <<>>)
        c == SkipSpace(k.rest)
        v == ParseValue(Tail(c))
        r == SkipSpace(v.rest)
        m == Append(acc, [key |-> k.val.str, val |-> v.val])
    IN  IF s = <<>> \/ Head(s) # "\"" THEN [ok |-> FALSE]
        ELSE IF ~k.ok THEN [ok |-> FALSE]
        ELSE IF c = <<>> \/ Head(c) # ":" THEN [ok |-> FALSE]
        ELSE IF ~v.ok THEN [ok |-> FALSE]
        ELSE IF r = <<>> THEN [ok |-> FALSE]
        ELSE IF Head(r) = "," THEN ParseMembers(Tail(r), m)
        ELSE IF Head(r) = "}" THEN [ok |-> TRUE, val |-> [kind |-> "object",
                 members |-> m], rest |-> Tail(r)]
        ELSE [ok |-> FALSE]

\* the zero PRDescriptionAI that "var prDesc PRDescriptionAI" declares
PRDescriptionAI ==
    [Title |-> <<>>, Summary |-> <<>>, Changes |-> <<>>, Testing |-> <<>>,
     BreakingChanges |-> <<>>]

\* the members stored one after the other into the fields they name: a key
\* selects a field when the names are equal under case folding (the types of
\* this package carry no json tags); null leaves a field alone; a type error
\* is remembered and decoding goes on
RECURSIVE DecodeMembers(_, _, _)
DecodeMembers(members, target, ok) ==
    LET FieldNames ==
            [Title |-> <<"T","i","t","l","e">>, Summary |-> <<"S","u","m","m","a","r",
                    "y">>, Changes |-> <<"C","h","a","n","g","e","s">>,
             Testing |-> <<"T","e","s","t","i","n","g">>, BreakingChanges |-> <<"B","r","e","a","k",
                     "i","n","g","C","h","a","n","g","e","s">>]
        DecodeString(v, old) ==
            IF v.kind = "string" THEN [ok |-> TRUE, val |-> v.str]
            ELSE [ok |-> v.kind = "null", val |-> old]
        DecodeStrings(v, old) ==
            IF v.kind = "array"
            THEN [ok |-> \A i \in 1..Len(v.items) : v.items[i].kind \in {"string", "null"},
                  val |-> [i \in 1..Len(v.items) |->
                              IF v.items[i].kind = "string" THEN v.items[i].str ELSE <<>>]]
            ELSE [ok |-> v.kind = "null", val |-> IF v.kind = "null" THEN <<>> ELSE old]
        mem == Head(members)
        fs == {x \in DOMAIN FieldNames : ToLower(FieldNames[x]) = ToLower(mem.key)}
        f == CHOOSE x \in fs : TRUE
        d == IF f \in {"Title", "Summary", "Testing"} THEN DecodeString(mem.val, target[f])
             ELSE DecodeStrings(mem.val, target[f])
    IN  IF members = <<>> THEN [ok |-> ok, val |-> target]
        ELSE IF fs = {} THEN DecodeMembers(Tail(members), target, ok)
        ELSE DecodeMembers(Tail(members), [target EXCEPT ![f] = d.val], ok /\ d.ok)

\* json.Unmarshal(text, &target): err is TRUE for a syntax error (the text is
\* not one JSON value with nothing but white space after it) and for a value
\* of the wrong type
Unmarshal(t, target) ==
    LET p == ParseValue(t)
    IN  IF ~p.ok \/ SkipSpace(p.rest) # <<>> THEN [err |-> TRUE, val |-> target]
        ELSE IF p.val.kind = "null" THEN [err |-> FALSE, val |-> target]
        ELSE IF p.val.kind # "object" THEN [err |-> TRUE, val |-> target]
        ELSE LET d == DecodeMembers(p.val.members, target, TRUE)
             IN  [err |-> ~d.ok, val |-> d.val]

GeneratePRDescription_OpenAI(r, response) ==
    LET d == Unmarshal(response, PRDescriptionAI)
    IN  IF r.err # Nil
        THEN [desc |-> Nil, err |-> <<"f","a","i","l","e","d"," ","t","o"," ","g","e","n","e","r",
                "a","t","e"," ","P","R"," ","d","e","s","c","r","i","p","t","i","o","n",":",
                " ">> \o r.err]
        ELSE IF d.err THEN [desc |-> parsePRDescriptionFromText(response), err |-> Nil]
        ELSE [desc |-> d.val, err |-> Nil]

GeneratePRDescription_Gemini_TextOnly(r, resp) ==
    IF r.err # Nil
    THEN [desc |-> Nil, err |-> <<"f","a","i","l","e","d"," ","t","o"," ","g","e","n","e","r","a",
            "t","e"," ","P","R"," ","d","e","s","c","r","i","p","t","i","o","n",":"," ">> \o r.err]
    ELSE IF Len(resp.Candidates) = 0
    THEN [desc |-> Nil, err |-> <<"n","o"," ","r","e","s","p","o","n","s","e"," ","f","r","o","m",
            " ","G","e","m","i","n","i">>]
    ELSE [desc |-> parsePRDescriptionFromText(extractTextFromResponse(resp)), err |-> Nil]

GeneratePRDescription_Gemini(r, resp) ==
    LET t == extractTextFromResponse(resp)
        d == Unmarshal(t, PRDescriptionAI)
    IN  IF r.err # Nil
        THEN [desc |-> Nil, err |-> <<"f","a","i","l","e","d"," ","t","o"," ","g","e","n","e","r",
                "a","t","e"," ","P","R"," ","d","e","s","c","r","i","p","t","i","o","n",":",
                " ">> \o r.err]
        ELSE IF Len(resp.Candidates) = 0
        THEN [desc |-> Nil, err |-> <<"n","o"," ","r","e","s","p","o","n","s","e"," ","f","r","o",
                "m"," ","G","e","m","i","n","i">>]
        ELSE IF d.err THEN [desc |-> parsePRDescriptionFromText(t), err |-> Nil]
        ELSE [desc |-> d.val, err |-> Nil]

(***************************************************************************)
(* SpecDecode: ReviewCode and GeneratePRDescription of both backends       *)
(* given a provider response that is a JSON document or is not.             *)
(***************************************************************************)
Quote(s) == <<"\"">> \o s \o <<"\"">>

EncodeList(items, sp) ==
    LET RECURSIVE EncodeItems(_)
        EncodeItems(its) ==
            IF its = <<>> THEN <<>>
            ELSE IF Len(its) = 1 THEN Quote(Head(its))
            ELSE Quote(Head(its)) \o <<",">> \o sp \o EncodeItems(Tail(its))
    IN  <<"[">> \o EncodeItems(items) \o <<"]">>

\* a PR description as a JSON document, sp the white space between tokens
EncodePR(v, sp) ==
    <<"{">> \o sp \o <<"\"","t","i","t","l","e","\"",":">> \o sp \o Quote(v.Title) \o <<",">> \o sp
        \o <<"\"","s","u","m","m","a","r","y","\"",":">> \o sp \o Quote(v.Summary) \o <<",">> \o sp
        \o <<"\"","c","h","a","n","g","e","s","\"",
                ":">> \o sp \o EncodeList(v.Changes, sp) \o <<",">> \o sp
        \o <<"\"","t","e","s","t","i","n","g","\"",":">> \o sp \o Quote(v.Testing) \o <<",">> \o sp
        \o <<"\"","b","r","e","a","k","i","n","g","C","h","a","n","g","e","s","\"",
                ":">> \o sp \o EncodeList(v.BreakingChanges, sp) \o sp \o <<"}">>

\* a review as a JSON document
EncodeReview(v, sp) ==
    <<"{">> \o sp \o <<"\"","s","u","m","m","a","r","y","\"",
            ":">> \o sp \o Quote(v.Summary) \o <<",">> \o sp
        \o <<"\"","i","s","s","u","e","s","\"",":">> \o sp \o <<"[","]",",">> \o sp \o <<"\"","s",
                "u","g","g","e","s","t","i","o","n","s","\"",":">> \o sp \o <<"[","]">> \o sp
        \o <<"}">>

Spacings == {<<>>, <<"\n", " ">>}

PRValues ==
    [Title : {<<>>, <<"A","d","d"," ","x">>}, Summary : {<<>>, <<"f","i","x"," ","t","h","e"," ",
            "b","u","g">>},
     Changes : {<<>>, <<<<"a">>>>, <<<<"n","e","w"," ","a">>, <<"b">>>>}, Testing : {<<>>, <<"t">>},
     BreakingChanges : {<<>>, <<<<"x">>>>}]

ReviewValues == [Summary : {<<"o","k">>, <<"l","o","o","k","s"," ","f","i","n","e">>}]

\* JSON documents that set no field of a PR description
BareDocuments == {<<"n","u","l","l">>, <<"{","}">>, <<" ","{","\"","o","t","h","e","r","\"",":"," ",
        "[","1",","," ","t","r","u","e",","," ","-","0",".","5","e","3","]","}","\n">>}

\* responses json.Unmarshal rejects: not JSON, cut short, preceded by prose, or of another type
MalformedDocuments ==
    { <<>>, <<"A","d","d"," ","x">>, <<"#"," ","T","\n","u","p","d","a","t","e"," ","y">>, <<"{",
            "\"","t","i","t","l","e","\"",":"," ","\"","a","\"">>, <<"H","e","r","e"," ","i","t",
            " ","i","s",":","\n","{","\"","t","i","t","l","e","\"",":"," ","\"","a","\"","}">>,
      <<"\"","A","d","d"," ","x","\"">>, <<"[","\"","a","\"","]">>, <<"{","\"","t","i","t","l","e",
              "\"",":"," ","5","}">>, <<"{","\"","c","h","a","n","g","e","s","\"",":"," ","\"","a",
              "\"","}">> }

Documents ==
    {EncodePR(v, sp) : v \in PRValues, sp \in Spacings}
        \cup {EncodeReview(v, sp) : v \in ReviewValues, sp \in Spacings}
        \cup BareDocuments \cup MalformedDocuments

\* what generateWithRetry returned: a response or an error
RequestResults ==
    {Return(StartedRequest, "ok", Nil, "none"), Return(StartedRequest, "none",
             ContextErr, "Canceled")}

\* the Gemini responses that carry the document, or no candidate
CandidatesOf(t) ==
    {[Candidates |-> <<>>], [Candidates |-> <<[HasContent |-> TRUE, Parts |-> <<TextPart(t)>>]>>]}

InitDecode ==
    /\ text \in Documents
    /\ conventional = FALSE
    /\ out = NoOutput
    /\ reviews = <<>>
    /\ NoRetry
    /\ NoCommand

PRDescriptionOpenAI ==
    /\ \E r \in RequestResults :
           out' = [fn |-> "GeneratePRDescription", backend |-> "openai",
                   result |-> GeneratePRDescription_OpenAI(r, text)]
    /\ UNCHANGED <<text, conventional, reviews, retryVars, cmdVars>>

PRDescriptionGemini ==
    /\ \E r \in RequestResults, resp \in CandidatesOf(text) :
           out' = [fn |-> "GeneratePRDescription", backend |-> "gemini",
                   result |-> GeneratePRDescription_Gemini(r, resp)]
    /\ UNCHANGED <<text, conventional, reviews, retryVars, cmdVars>>

ReviewCodeOpenAI ==
    /\ \E r \in RequestResults :
           out' = [fn |-> "ReviewCode", backend |-> "openai",
                   result |-> ReviewCode_OpenAI(r, text, [Verbose |-> FALSE])]
    /\ UNCHANGED <<text, conventional, reviews, retryVars, cmdVars>>

ReviewCodeGemini ==
    /\ \E r \in RequestResults, resp \in CandidatesOf(text) :
           out' = [fn |-> "ReviewCode", backend |-> "gemini",
                   result |-> ReviewCode_Gemini(r, resp, [Verbose |-> FALSE])]
    /\ UNCHANGED <<text, conventional, reviews, retryVars, cmdVars>>

NextDecode == PRDescriptionOpenAI \/ PRDescriptionGemini \/ ReviewCodeOpenAI \/ ReviewCodeGemini

SpecDecode == InitDecode /\ [][NextDecode]_vars

(***************************************************************************)
(* Claims about JSON-first decoding, checked under SpecDecode.              *)
(***************************************************************************)
\* C13: ReviewCode decodes a response that is a JSON document of the Review
\* shape, so that the review it returns carries the document's summary.
C13_ReviewIsJSONFirst ==
    (out.fn = "ReviewCode" /\ out.result.err = Nil) =>
        \A v \in ReviewValues, sp \in Spacings :
            text = EncodeReview(v, sp) => out.result.review.Summary = v.Summary

\* C16: GeneratePRDescription of either backend returns the decoded value
\* as it is, with none of the text fallback's defaults, when the response
\* is a JSON document of the PR description shape, and returns the text
\* fallback's result exactly when JSON decoding fails.
C16_FallbackIffDecodingFails ==
    (out.fn = "GeneratePRDescription" /\ out.result.err = Nil) =>
        /\ \A v \in PRValues, sp \in Spacings :
               text = EncodePR(v, sp) => out.result.desc = v
        /\ text \in BareDocuments =>
               out.result.desc = [Title |-> <<>>, Summary |-> <<>>, Changes |-> <<>>,
                                  Testing |-> <<>>, BreakingChanges |-> <<>>]
        /\ text \in MalformedDocuments => out.result.desc = parsePRDescriptionFromText(text)
        /\ text \notin MalformedDocuments => out.result.desc # parsePRDescriptionFromText(text)

C16_Witness ==
    /\ out.fn = "GeneratePRDescription" /\ out.backend = "gemini" /\ out.result.err = Nil
    /\ text = EncodePR([Title |-> <<"A","d","d"," ","x">>, Summary |-> <<"f","i","x"," ","t","h",
            "e"," ","b","u","g">>,
                        Changes |-> <<<<"n","e","w"," ","a">>, <<"b">>>>, Testing |-> <<>>,
                        BreakingChanges |-> <<>>], <<"\n", " ">>)
    /\ out.result.desc.Title = <<"A","d","d"," ","x">>
    /\ out.result.desc.Changes = <<<<"n","e","w"," ","a">>, <<"b">>>>
    /\ out.result.desc.Testing = <<>>

HeaderLine(type, scope, subject) == type \o <<"(">> \o scope \o <<")",":"," ">> \o subject

FirstLine(t) == Split(t, <<"\n">>)[1]

\* C15: a first line "type(scope): subject" parsed with conventional = TRUE
\* and reassembled is the first line of FullMessage, character for
\* character, also when the scope or the subject contains ":", "(" or ")".
C15_HeaderRoundTrip ==
    (out.fn = "parseCommitMessage" /\ conventional) =>
        \A type \in {<<"f">>}, scope \in {<<"s">>, <<"a",":",
                "b">>}, subject \in {<<"a">>, <<"x">>} :
            FirstLine(text) = HeaderLine(type, scope, subject)
                => FirstLine(out.result.FullMessage) = HeaderLine(type, scope, subject)

(***************************************************************************)
(* SpecFallback: generateFallbackCommitMessage applied to bounded diffs.    *)
(***************************************************************************)
DiffLines ==
    { <<"n","e","w"," ","f","i","l","e"," ","m","o","d","e"," ","1","0","0","6","4","4">>, <<"d",
            "e","l","e","t","e","d"," ","f","i","l","e"," ","m","o","d","e"," ","1","0","0","6","4",
            "4">>, <<"-","-","-"," ","/","d","e","v","/","n","u","l","l">>,
      <<"-","-","-"," ","a","/","y"," ","/","d","e","v","/","n","u","l","l">>, <<"-","-","-"," ",
              "a","/","d","/","x",".","g","o">>, <<"+","+","+"," ","b","/","n","e","w","f","i","l",
              "e",".","g","o">>, <<"+","+","+"," ","b","/","d","/","x",".","g","o">>,
      <<"+","+","+"," ","/","d","e","v","/","n","u","l","l">>, <<"+","a">>, <<"-","b">> }

DiffTexts ==
    { Join(ls, <<"\n">>) : ls \in UNION { [1..n -> DiffLines] : n \in 1..MaxLines } }

InitFallback ==
    /\ text \in DiffTexts
    /\ conventional \in BOOLEAN
    /\ out = NoOutput
    /\ reviews = <<>>
    /\ NoRetry
    /\ NoCommand

FallbackMessage ==
    /\ \E type \in {<<>>, <<"d","o","c","s">>} :
           LET options == [Type |-> type, Scope |-> <<>>, Conventional |-> conventional]
           IN  out' = [fn |-> "generateFallbackCommitMessage", options |-> options,
                       result |-> generateFallbackCommitMessage(text, options)]
    /\ UNCHANGED <<text, conventional, reviews, retryVars, cmdVars>>

SpecFallback == InitFallback /\ [][FallbackMessage]_vars

(***************************************************************************)
(* Claims about the fallback heuristic, checked under SpecFallback.         *)
(***************************************************************************)
FallbackReturned == out.fn = "generateFallbackCommitMessage"

LinesOf(t) == {Split(t, <<"\n">>)[i] : i \in 1..Len(Split(t, <<"\n">>))}

\* the files named by the "+++" lines of a diff, /dev/null left out
PlusFiles(t) ==
    {TrimPrefix(l, <<"+","+","+"," ","b","/">>) : l \in {x \in LinesOf(t) : HasPrefix(x, <<"+","+",
            "+">>)
                                                         /\ ~Contains(x, <<"/","d","e","v","/","n",
                                                                 "u","l","l">>)}}

\* what a "--- ... /dev/null" line names
MinusNullFiles(t) ==
    {TrimPrefix(TrimPrefix(l, <<"-","-","-"," ">>), <<"a","/">>) :
        l \in {x \in LinesOf(t) : HasPrefix(x, <<"-","-","-">>) /\ Contains(x, <<"/","d","e","v",
                "/","n","u","l","l">>)}}

\* the subject for a non-empty category
CategorySubject(verb, files) ==
    IF Cardinality(files) = 1 THEN verb \o <<" ">> \o Base(CHOOSE f \in files : TRUE)
    ELSE verb \o <<" ">> \o Itoa(Cardinality(files)) \o <<" ","f","i","l","e","s">>

\* C17: for a diff with no "new file mode" marker and no "/dev/null" target,
\* every file named by a "+++" line counts as modified and none as added:
\* the subject is "update ..." and never "add ...", and the type inferred
\* when no type option is given is never "feat".
C17_NoMarkerMeansModified ==
    (FallbackReturned /\ ~Contains(text, <<"n","e","w"," ","f","i","l","e"," ","m","o","d",
            "e">>) /\ ~Contains(text, <<"/","d","e","v","/","n","u","l","l">>)) =>
        /\ ~HasPrefix(out.result.Subject, <<"a","d","d">>)
        /\ out.options.Type = <<>> => out.result.Type = <<"f","i","x">>
        /\ out.result.Subject = IF PlusFiles(text) = {} THEN <<"u","p","d","a","t","e"," ","c","o",
                "d","e">>
                                ELSE CategorySubject(<<"u","p","d","a","t","e">>, PlusFiles(text))

C17_Witness ==
    /\ FallbackReturned
    /\ text = <<"d","e","l","e","t","e","d"," ","f","i","l","e"," ","m","o","d","e"," ","1","0","0",
            "6","4","4","\n","+","+","+"," ","b","/","n","e","w","f","i","l","e",".","g","o","\n",
            "+","+","+"," ","b","/","d","/","x",".","g","o">>
    /\ out.options.Type = <<>>
    /\ out.result.Subject = <<"u","p","d","a","t","e"," ","2"," ","f","i","l","e","s">>
    /\ out.result.Type = <<"f","i","x">>

\* C18: type and subject come from the first non-empty category in the
\* order added > deleted > modified > none, where a "+++" file is added when
\* the diff has a "new file mode" marker and modified when it has none, and
\* a "--- ... /dev/null" line marks a deleted file: feat / "add", else
\* chore / "remove", else fix / "update", else "update code"; one file is
\* named by its base name, n > 1 files give "<verb> n files".
C18_CategoryPriority ==
    FallbackReturned =>
        LET marker == Contains(text, <<"n","e","w"," ","f","i","l","e"," ","m","o","d","e">>)
            added == IF marker THEN PlusFiles(text) ELSE {}
            modified == IF marker THEN {} ELSE PlusFiles(text)
            deleted == MinusNullFiles(text)
            inferred == out.options.Type = <<>>
        IN  IF added # {}
            THEN /\ out.result.Subject = CategorySubject(<<"a","d","d">>, added)
                 /\ inferred => out.result.Type = <<"f","e","a","t">>
            ELSE IF deleted # {}
            THEN /\ out.result.Subject = CategorySubject(<<"r","e","m","o","v","e">>, deleted)
                 /\ inferred => out.result.Type = <<"c","h","o","r","e">>
            ELSE IF modified # {}
            THEN /\ out.result.Subject = CategorySubject(<<"u","p","d","a","t","e">>, modified)
                 /\ inferred => out.result.Type = <<"f","i","x">>
            ELSE out.result.Subject = <<"u","p","d","a","t","e"," ","c","o","d","e">>

C18_Witness ==
    /\ FallbackReturned
    /\ text = <<"n","e","w"," ","f","i","l","e"," ","m","o","d","e"," ","1","0","0","6","4","4",
            "\n","+","+","+"," ","b","/","n","e","w","f","i","l","e",".","g","o">>
    /\ out.options.Type = <<>>
    /\ out.result.Type = <<"f","e","a","t">>
    /\ out.result.Subject = <<"a","d","d"," ","n","e","w","f","i","l","e",".","g","o">>

(***************************************************************************)
(* SpecBranch: ExtractCommitDetails applied to branch names.                *)
(***************************************************************************)
BranchPrefixes ==
    { <<"f","e","a","t","u","r","e">>, <<"f","e","a","t">>, <<"f","i","x">>, <<"b","u","g","f","i",
            "x">>, <<"h","o","t","f","i","x">>, <<"r","e","l","e","a","s","e">>, <<"c","h","o","r",
            "e">>, <<"F","e","a","t","u","r","e">>,
      <<"B","u","g","F","i","x">>, <<"v","2","0","2","4">>, <<"r","2","0","2","5","0","6","2","0",
              "1","2","3","4">> }

BranchTickets == {<<"1","2","3","4">>, <<"1","2","3","4","5">>}

BranchRests == {<<"n","e","w","-","l","o","g","i","n">>, <<"2","0","2","5","0","6","2","0","-","n",
        "e","w","-","l","o","g","i","n">>, <<"f","i","x","-","b","u","g">>, <<"a","d","d","-","f",
        "e","a","t","u","r","e","-","2">>, <<"x">>}

\* {prefix}/{ticket}-{rest}
TicketBranch(prefix, ticket, rest) == prefix \o <<"/">> \o ticket \o <<"-">> \o rest

BranchInputs ==
    {TicketBranch(p, t, r) : p \in BranchPrefixes, t \in BranchTickets, r \in BranchRests}
        \cup { <<"r","e","l","e","a","s","e","/","v","1",".","0">>, <<"n","o","-","t","i","c","k",
                "e","t","-","f","e","a","t">>, <<"1","2","3","4","5","-","f","i","x","-","s","o",
                "m","e","t","h","i","n","g">>, <<"m","a","i","n">>,
               <<"H","O","T","F","I","X","/","9","9","-","x">>, <<"f","i","2","0","2","5","0","6",
                       "2","0","x">>, <<"f","e","a","2","0","2","5","0","6","2","0","t","-",
                       "1">>, <<"1","2","2","0","2","5","0","6","2","0","3","-","4">> }

InitBranch ==
    /\ text \in BranchInputs
    /\ conventional = FALSE
    /\ out = NoOutput
    /\ reviews = <<>>
    /\ NoRetry
    /\ NoCommand

ExtractDetails ==
    /\ out' = [fn |-> "ExtractCommitDetails", result |-> ExtractCommitDetails(text)]
    /\ UNCHANGED <<text, conventional, reviews, retryVars, cmdVars>>

SpecBranch == InitBranch /\ [][ExtractDetails]_vars

(***************************************************************************)
(* Claims about branch names, checked under SpecBranch.                     *)
(***************************************************************************)
DetailsReturned == out.fn = "ExtractCommitDetails"

\* C19: for a branch name {prefix}/{4-5 digits}-{rest} the ticket number is
\* that digit run after the slash, whatever the prefix and the rest contain.
C19_TicketAfterSlash ==
    DetailsReturned =>
        \A p \in BranchPrefixes, t \in BranchTickets, r \in BranchRests :
            text = TicketBranch(p, t, r) => out.result.ticketNumber = t

\* the type a string's keywords stand for: "fix" before "feat"
KeywordType(s) ==
    IF Contains(s, <<"f","i","x">>) THEN <<"f","i","x">> ELSE IF Contains(s, <<"f","e","a",
            "t">>) THEN <<"f","e","a","t">> ELSE <<>>

HasDigitRun(s) == \E i \in 1..Len(s) : AllDigits(s, i, 4)

\* C20: the type is "fix" when the lower-cased branch name contains
\* "fix", else "feat" when it contains "feat", else empty; a name with no
\* keyword and no run of 4 digits gives an empty type and an empty ticket.
C20_TypeByKeyword ==
    DetailsReturned =>
        /\ out.result.commitType = KeywordType(ToLower(text))
        /\ (KeywordType(ToLower(text)) = <<>> /\ ~HasDigitRun(text))
               => (out.result.commitType = <<>> /\ out.result.ticketNumber = <<>>)

(***************************************************************************)
(* Issue numbers of a pull request: extractIssuesFromText,                  *)
(* extractIssueNumbers and formatIssueLinks.                                *)
(***************************************************************************)
\* the captures of the three patterns, pattern after pattern, each pattern's
\* matches from left to right without overlap: "#" digits, keyword white
\* space "#" digits, keyword white space digits (keywords in any case)
extractIssuesFromText(t) ==
    LET Keywords == { <<"f","i","x">>, <<"f","i","x","e","s">>, <<"f","i","x","e","d">>, <<"c","l",
            "o","s","e">>, <<"c","l","o","s","e","s">>, <<"c","l","o","s","e","d">>, <<"r","e","s",
            "o","l","v","e">>,
                      <<"r","e","s","o","l","v","e","s">>, <<"r","e","s","o","l","v","e","d">> }
        RECURSIVE SpaceRun(_)
        SpaceRun(s) == IF s # <<>> /\ Head(s) \in {" ", "\t", "\n", "\r", "\f"}
                       THEN 1 + SpaceRun(Tail(s)) ELSE 0
        From(s, n) == SubSeq(s, n + 1, Len(s))
        \* the match of "#" digits at the head of s: its length and capture
        HashAt(s) ==
            IF s # <<>> /\ Head(s) = "#" /\ DigitRun(Tail(s)) >= 1
            THEN [len |-> 1 + DigitRun(Tail(s)), cap |-> SubSeq(s, 2, 1 + DigitRun(Tail(s)))]
            ELSE [len |-> 0]
        \* the match of keyword, white space, the number at the head of s
        KeywordAt(s, hash) ==
            LET ks == {k \in Keywords : HasPrefix(ToLower(s), k)
                                        /\ SpaceRun(From(s, Len(k))) >= 1}
                k == CHOOSE x \in ks : TRUE
                skip == Len(k) + SpaceRun(From(s, Len(k)))
                rest == From(s, skip)
                num == IF hash THEN HashAt(rest)
                       ELSE IF DigitRun(rest) >= 1
                            THEN [len |-> DigitRun(rest), cap |-> SubSeq(rest, 1, DigitRun(rest))]
                            ELSE [len |-> 0]
            IN  IF ks # {} /\ num.len > 0 THEN [len |-> skip + num.len, cap |-> num.cap]
                ELSE [len |-> 0]
        MatchAt(s, pattern) ==
            IF pattern = 1 THEN HashAt(s) ELSE KeywordAt(s, pattern = 2)
        RECURSIVE FindAll(_, _)
        FindAll(s, pattern) ==
            IF s = <<>> THEN <<>>
            ELSE IF MatchAt(s, pattern).len > 0
            THEN <<MatchAt(s, pattern).cap>> \o FindAll(From(s, MatchAt(s, pattern).len), pattern)
            ELSE FindAll(Tail(s), pattern)
    IN  FindAll(t, 1) \o FindAll(t, 2) \o FindAll(t, 3)

\* every issue of the branch name and of the commit messages, nothing removed
extractIssueNumbers_All(branchName, commits) ==
    LET RECURSIVE Concat(_)
        Concat(cs) == IF cs = <<>> THEN <<>>
                      ELSE extractIssuesFromText(Head(cs).Message) \o Concat(Tail(cs))
    IN  {extractIssuesFromText(branchName) \o Concat(commits)}

\* the slices extractIssueNumbers can return: the keys of issueSet in the
\* order the map iteration yields them, which is any order
extractIssueNumbers(branchName, commits) ==
    LET Elems(s) == {s[i] : i \in 1..Len(s)}
        issueSet == Elems(extractIssuesFromText(branchName))
                        \cup UNION {Elems(extractIssuesFromText(commits[i].Message)) :
                                        i \in 1..Len(commits)}
    IN  {issues \in [1..Cardinality(issueSet) -> issueSet] :
            \A i, j \in 1..Cardinality(issueSet) : issues[i] = issues[j] => i = j}

formatIssueLinks(issueNumbers, platform) ==
    [i \in 1..Len(issueNumbers) |->
        IF platform = "gitlab" THEN <<"C","l","o","s","e","s"," ","#">> \o issueNumbers[i]
        ELSE <<"F","i","x","e","s"," ","#">> \o issueNumbers[i]]

(***************************************************************************)
(* SpecIssues: the issue links of a branch and its commits.                 *)
(***************************************************************************)
IssueBranches == {<<"m","a","i","n">>, <<"f","i","x","/","#","1","2","-","l","o","g","i",
        "n">>, <<"f","e","a","t","u","r","e","/","7","-","x">>}

IssueMessages == {<<"a","d","d"," ","l","o","g","i","n">>, <<"F","i","x","e","s"," ","#","1",
        "2">>, <<"c","l","o","s","e","s"," ","#","7",","," ","s","e","e"," ","#","1","2">>, <<"p",
        "r","e","f","i","x"," ","7","\n","R","e","s","o","l","v","e","d"," "," ","1","2">>, <<"#",
        "7"," ","#","7">>}

IssueCommits ==
    {<<>>} \cup {<<[Message |-> a]>> : a \in IssueMessages}
        \cup {<<[Message |-> a], [Message |-> b]>> : a \in IssueMessages, b \in IssueMessages}

InitIssues ==
    /\ repo \in [branch : IssueBranches, commits : IssueCommits,
                 platform : {"github", "gitlab", "bitbucket"}]
    /\ command = "none" /\ cfg = <<>> /\ flags = <<>> /\ commitType = <<>>
    /\ pc = "none" /\ local = <<>> /\ effects = <<>> /\ exit = "none"
    /\ NoRetry
    /\ NoNormalizer

IssueLinks ==
    /\ \E issues \in extractIssueNumbers(repo.branch, repo.commits) :
           local' = [IssueNumbers |-> issues, IssueLinks |-> formatIssueLinks(issues, repo.platform)]
    /\ UNCHANGED <<retryVars, parseVars, command, cfg, flags, commitType, repo, pc, effects, exit>>

SpecIssues == InitIssues /\ [][IssueLinks]_vars

(***************************************************************************)
(* Claims about issue links, checked under SpecIssues.                      *)
(***************************************************************************)
\* C21: the issue numbers are deduplicated before the links are formatted:
\* no issue number occurs twice in the result of extractIssueNumbers, every
\* issue the branch name or a commit message refers to occurs in it, and
\* formatIssueLinks yields one link of the platform per issue number.
C21_IssueLinksDeduplicated ==
    local # <<>> =>
        LET issues == local.IssueNumbers
            links == local.IssueLinks
            word == IF repo.platform = "gitlab" THEN <<"C","l","o","s","e","s"," ","#">> ELSE <<"F",
                    "i","x","e","s"," ","#">>
            texts == <<repo.branch>> \o [i \in 1..Len(repo.commits) |-> repo.commits[i].Message]
            found == UNION {{extractIssuesFromText(texts[k])[i] :
                                i \in 1..Len(extractIssuesFromText(texts[k]))} : k \in 1..Len(texts)}
        IN  /\ \A i, j \in 1..Len(issues) : issues[i] = issues[j] => i = j
            /\ {issues[i] : i \in 1..Len(issues)} = found
            /\ Len(links) = Len(issues)
            /\ \A i \in 1..Len(links) : links[i] = word \o issues[i]
            /\ \A i, j \in 1..Len(links) : links[i] = links[j] => i = j

C21_Witness ==
    /\ local # <<>>
    /\ repo.branch = <<"f","i","x","/","#","1","2","-","l","o","g","i","n">>
    /\ repo.commits = <<[Message |-> <<"F","i","x","e","s"," ","#","1","2">>], [Message |-> <<"c",
            "l","o","s","e","s"," ","#","7",","," ","s","e","e"," ","#","1","2">>]>>
    /\ repo.platform = "gitlab"
    /\ local.IssueLinks = <<<<"C","l","o","s","e","s"," ","#","7">>, <<"C","l","o","s","e","s"," ",
            "#","1","2">>>>

C23_CommitOnceAfterConfirmation ==
    command = "commit" =>
        LET Accepting == {<<>>, <<"y">>, <<"Y">>}
        IN  /\ Len(repo.commitArgs) <= 1
            /\ repo.commitArgs # <<>> =>
                   /\ local.generated \in {"ai", "fallback"}
                   /\ flags.interactive =>
                          Len(local.answers) = 1 /\ local.answers[1] \in Accepting
            /\ local.answers # <<>> /\ local.answers[1] \notin Accepting =>
                   /\ repo.commitArgs = <<>> /\ repo.pushes = 0
                   /\ pc = "done" /\ exit = "nil"
            /\ repo.pushes > 0 => flags.push /\ Len(repo.commits) = 1
            /\ Shown("ShowWarning: Failed to push") => repo.pushes = 1 /\ exit = "nil"

C23_Witness ==
    /\ command = "commit" /\ flags.interactive /\ flags.push
    /\ local.answers = <<<<"Y">>>>
    /\ local.generated = "fallback"
    /\ Len(repo.commits) = 1 /\ repo.pushes = 1
    /\ Shown("ShowWarning: Failed to push")
    /\ pc = "done" /\ exit = "nil"

\* the lines of the trimmed text
TrimmedLines(t) == Split(TrimSpace(t), <<"\n">>)

\* the components of a commit message that are not empty, a blank line between them
Reassembled(components) == Join(SelectSeq(components, LAMBDA c : c # <<>>), <<"\n","\n">>)

\* C24: when the second line of the commit text is blank, the footer is the
\* block from the first line (third line or later) that begins with
\* BREAKING CHANGE:, Fixes #, Closes # or Resolves # to the end of the text,
\* the body is the lines between the blank line and that block, and
\* FullMessage is header, blank line, body, blank line, footer with every
\* empty component and its blank line left out.
C24_BodyFooterReassembly ==
    out.fn = "parseCommitMessage" /\ Len(TrimmedLines(text)) >= 2 /\ TrimSpace(TrimmedLines(text)[2]) = <<>> =>
        LET lines == TrimmedLines(text)
            r == out.result
            Marked(l) == \E p \in {<<"B","R","E","A","K","I","N","G"," ","C","H","A","N","G","E",
                    ":">>, <<"F","i","x","e","s"," ","#">>, <<"C","l","o","s","e","s"," ",
                    "#">>, <<"R","e","s","o","l","v","e","s"," ","#">>} : HasPrefix(l, p)
            k == IF \E i \in 3..Len(lines) : Marked(lines[i])
                 THEN CHOOSE i \in 3..Len(lines) : Marked(lines[i]) /\ \A j \in 3..(i - 1) : ~Marked(lines[j])
                 ELSE Len(lines) + 1
            header == IF r.Type = <<>> THEN r.Subject
                      ELSE IF r.Scope = <<>> THEN r.Type \o <<":"," ">> \o r.Subject
                      ELSE HeaderLine(r.Type, r.Scope, r.Subject)
        IN  /\ r.Body = TrimSpace(Join(SubSeq(lines, 3, k - 1), <<"\n">>))
            /\ r.Footer = TrimSpace(Join(SubSeq(lines, k, Len(lines)), <<"\n">>))
            /\ r.FullMessage = Reassembled(<<header, r.Body, r.Footer>>)

\* C25: the backoff wait that follows attempt n (n = 0, 1, 2) is 2^n seconds,
\* so the waits of a request are 1, 2, 4 seconds in this order and strictly
\* increase; no wait follows the last attempt; the waits of one request add
\* up to at most 7 seconds.
C25_BackoffDelays ==
    \A r \in {gem, oai} :
        LET RECURSIVE Sum(_)
            Sum(w) == IF w = <<>> THEN 0 ELSE Head(w) + Sum(Tail(w))
        IN  /\ \A i \in 1..Len(r.waits) : r.waits[i] = 2 ^ (i - 1)
            /\ \A i, j \in 1..Len(r.waits) : i < j => r.waits[i] < r.waits[j]
            /\ Len(r.waits) <= 3
            /\ r.attempt = 3 => r.pc # "backoff"
            /\ r.pc = "done" => Len(r.waits) < r.calls
            /\ Sum(r.waits) <= 7

C25_Witness ==
    gem.pc = "done" /\ gem.calls = 4 /\ gem.waits = <<1, 2, 4>> /\ gem.err = Nil

(***************************************************************************)
(* SpecCandidates: GenerateCommitMessage of the Gemini backend on responses *)
(* of zero, one or two candidates.                                          *)
(***************************************************************************)
CandidateTexts == {<<>>, <<"a">>, <<"f","i","x",":"," ","a","\n">>, <<"b","\n">>}

CandidateParts ==
    LET part == {TextPart(t) : t \in CandidateTexts} \cup {[IsText |-> FALSE, Text |-> <<>>]}
    IN  {<<>>} \cup {<<p>> : p \in part} \cup {<<p, q>> : p \in part, q \in part}

CandidateSet ==
    {[HasContent |-> TRUE, Parts |-> ps] : ps \in CandidateParts}
        \cup {[HasContent |-> FALSE, Parts |-> <<>>]}

CandidateResponses ==
    {[Candidates |-> <<>>]} \cup {[Candidates |-> <<c>>] : c \in CandidateSet}
        \cup {[Candidates |-> <<c, d>>] : c \in CandidateSet, d \in CandidateSet}

InitCandidates ==
    /\ local \in [resp : CandidateResponses]
    /\ conventional \in BOOLEAN
    /\ text = <<>> /\ out = NoOutput /\ reviews = <<>>
    /\ command = "none" /\ cfg = <<>> /\ flags = <<>> /\ commitType = <<>> /\ repo = <<>>
    /\ pc = "none" /\ effects = <<>> /\ exit = "none"
    /\ NoRetry

CommitMessageGemini ==
    /\ \E r \in RequestResults :
           out' = [fn |-> "GenerateCommitMessage", backend |-> "gemini", request |-> r,
                   result |-> GenerateCommitMessage_Gemini(r, local.resp,
                                  [Type |-> <<>>, Scope |-> <<>>, Conventional |-> conventional])]
    /\ UNCHANGED <<text, conventional, reviews, retryVars, cmdVars>>

SpecCandidates == InitCandidates /\ [][CommitMessageGemini]_vars

\* C26: when the provider call succeeds, the commit message is generated from
\* the text parts of the first candidate alone, put together with or without
\* a line break between them, and a response without candidates is reported
\* as a no-response error.
C26_FirstCandidateOnly ==
    out.fn = "GenerateCommitMessage" /\ out.request.err = Nil =>
        LET cands == local.resp.Candidates
            parts == IF cands # <<>> /\ cands[1].HasContent
                     THEN SelectSeq(cands[1].Parts, LAMBDA p : p.IsText) ELSE <<>>
            texts == [i \in 1..Len(parts) |-> parts[i].Text]
        IN  IF cands = <<>>
            THEN out.result.err # Nil /\ Contains(out.result.err, <<"n","o"," ","r","e","s","p","o",
                    "n","s","e">>)
            ELSE /\ out.result.err = Nil
                 /\ \E sep \in {<<>>, <<"\n">>} :
                        out.result.msg = parseCommitMessage(Join(texts, sep), conventional)

\* C27: the message committed is the message shown: whenever git commit is
\* invoked, the first line of the FullMessage handed to it carries the subject
\* that was displayed (letter case aside), the ticket number prefix of the
\* subject included.
C27_CommittedIsDisplayed ==
    command = "commit" /\ repo.commitArgs # <<>> =>
        Contains(ToLower(FirstLine(repo.commitArgs[1])), ToLower(local.commitMsg.Subject))

\* C28: parseCommitMessage loses no content: every line after the header
\* line of the trimmed text that is not blank is found in the body or the
\* footer and in FullMessage, also when the second line of the text is not
\* blank and when the text has two lines.
C28_NoContentLost ==
    out.fn = "parseCommitMessage" =>
        \A i \in 2..Len(TrimmedLines(text)) :
            TrimSpace(TrimmedLines(text)[i]) # <<>> =>
                /\ \/ Contains(out.result.Body, TrimSpace(TrimmedLines(text)[i]))
                   \/ Contains(out.result.Footer, TrimSpace(TrimmedLines(text)[i]))
                /\ Contains(out.result.FullMessage, TrimSpace(TrimmedLines(text)[i]))

\* the value of --type in a commit run: given together with --scope, as docs
TypeFlag == IF command = "commit" /\ flags.commitScope # <<>> THEN <<"d","o","c","s">> ELSE <<>>

\* C29: a commit type given with --type is the type handed to the provider
\* and to the fallback heuristic, whatever the branch name is; the type
\* derived from the branch name is used only when no --type was given.
C29_TypeFlagWins ==
    command = "commit" /\ pc \notin {"start", "branch"} /\ local.diffResolved =>
        /\ TypeFlag # <<>> => commitType = TypeFlag
        /\ TypeFlag = <<>> => commitType = ExtractCommitDetails(local.branchName).commitType
        /\ TypeFlag # <<>> /\ local.generated = "fallback" => local.commitMsg.Type = TypeFlag

\* C30: with --dry-run the commit command only displays: for every staged
\* diff and all other flags it constructs no provider, makes no provider
\* call and invokes neither git commit nor git push, and a run that showed
\* the staged diff has ended with result nil.
C30_DryRunHasNoSideEffect ==
    command = "commit" /\ flags.dryRun =>
        /\ local.provider = "none"
        /\ gem = IdleRequest /\ oai = IdleRequest /\ outcomes = <<>>
        /\ repo = EmptyRepo
        /\ \A i \in 1..Len(effects) :
               effects[i] \in {"ShowError: API key not configured", "ShowInfo",
                               "ShowWarning: Could not get current branch name",
                               "ShowWarning: No staged changes found", "ShowDryRun"}
        /\ Shown("ShowDryRun") =>
               pc = "done" /\ exit = "nil" /\ local.diff # <<>> /\ effects[Len(effects)] = "ShowDryRun"
        /\ pc = "done" /\ local.diff # <<>> => Shown("ShowDryRun")

C30_Witness ==
    /\ command = "commit" /\ flags.dryRun /\ flags.push /\ flags.interactive
    /\ cfg.APIKey = <<"s","k","-","1">>
    /\ Shown("ShowDryRun") /\ pc = "done" /\ exit = "nil"

====
